---------------------------- MODULE Spec2Model ----------------------------
(***************************************************************************)
(* A model of pg_biscuit (src/src/pg_biscuit.c): the in-memory BiscuitIndex *)
(* (forward / reverse positional bitmaps, length bitmaps, slot table,      *)
(* tombstones, free list), its maintenance operations biscuit_insert and   *)
(* biscuit_bulkdelete, and the query path biscuit_rescan ->                *)
(* biscuit_query_pattern -> biscuit_collect_sorted_tids.                   *)
(*                                                                         *)
(* Bytes are modelled as one-character strings, a C string as a sequence   *)
(* of bytes, a RoaringBitmap as the set of its members, a NULL bitmap      *)
(* pointer as NULL_BM and a NULL char pointer as NULL_STR.  C arrays are   *)
(* 0-based: tids, data_cache and the length arrays are functions on        *)
(* 0..n-1; a CharIndex entry list and the free list are sequences.         *)
(* char_cache is written by the code but read by no operation and is left  *)
(* out.                                                                    *)
(***************************************************************************)
EXTENDS Integers, Sequences, FiniteSets, TLC

(***************************************************************************)
(* Bounds of the model and scaled program constants                        *)
(***************************************************************************)
\* longest string the host hands to insert
MaxInputLen == 4
\* longest pattern a scan is asked for
MaxPatLen == 3
\* slot-table size the model lets num_records reach
MaxRecords == 2
\* number of non-null inserts the model follows
MaxInserts == 3
\* heap blocks / line pointers the host draws TIDs from
MaxBlock == 1
MaxOffset == 1
\* the scan-ordering experiment: string / pattern lengths and line pointers
MaxScanLen == 1
MaxScanPatLen == 1
MaxScanOffset == 2
\* rows of the heap an index is built from, and inserts followed after it
MaxBuildRows == 2
MaxBuildInserts == 1
\* patterns %s1%...%sk%: number of segments and bytes per segment
\* inserts in the runs that fill the slots again after a compaction
MaxRefillInserts == 4
MaxSegs == 2
\* inserts, heap blocks and array elements the allocator grants in the runs
\* that grow the slot table (MaxAllocSize / sizeof(ItemPointerData), scaled)
MaxGrowInserts == 5
MaxGrowBlock == 4
MaxAllocSlots == 4
\* index columns a CREATE INDEX may name
MaxAtts == 2
\* scan descriptors open at once, inserts while they are open, and gettuple
\* calls observed after a scan's last result
MaxScans == 2
MaxOpenInserts == 2
MaxExtraCalls == 1
MaxSegLen == 2
\* slots, inserts and string length when a compaction leaves a live slot
MaxCompactRecords == 3
MaxCompactInserts == 3
MaxCompactLen == 2

\* longest pattern handed to the parser
MaxParseLen == 5
\* rows in the table when the cached index can be lost
MaxMissRows == 2
\* inserts into one cached index
MaxMissInserts == 2
\* largest value of the integer type of the members (UINT32_MAX, scaled
\* down to three blocks)
MaxBitValue == 5

\* #define MAX_POSITIONS 256, scaled down
MAX_POSITIONS == 3
\* #define TOMBSTONE_CLEANUP_THRESHOLD 1000, scaled down
TOMBSTONE_CLEANUP_THRESHOLD == 2
\* idx->capacity = 1024 at build, scaled to the slots of the model
INITIAL_CAPACITY == 2
\* int part_cap = 8 in biscuit_parse_pattern, scaled down
PART_CAP == 2
\* bits per block (uint64_t, value >> 6) and rb->capacity = 16 of a new
\* word-array bitmap, scaled down
WORD_BITS == 2
FB_CAPACITY == 1
\* largest number of blocks palloc0 grants: MaxAllocSize / sizeof(uint64_t)
\* is 2^27 - 1, one less than twice the 2^26 blocks of the value range
MaxAllocBlocks == 5

\* the bytes that occur in records and as pattern literals
\* two bytes that differ in case only
Chars == {"a", "A"}
PatChars == Chars \cup {"_", "%"}

NULL_BM == {-1}
NULL_STR == <<"NULL">>

RECURSIVE SeqsOfLen(_, _)
SeqsOfLen(A, n) ==
    IF n = 0 THEN {<<>>}
    ELSE {Append(s, c) : s \in SeqsOfLen(A, n - 1), c \in A}

SeqsUpTo(A, n) == UNION {SeqsOfLen(A, k) : k \in 0..n}

Strings == SeqsUpTo(Chars, MaxInputLen)
Patterns == SeqsUpTo(PatChars, MaxPatLen)
\* ItemPointerData: (block, offset)
TIDs == (0..MaxBlock) \X (1..MaxOffset)
ScanStrings == SeqsUpTo(Chars, MaxScanLen)
ScanPatterns == SeqsUpTo(PatChars, MaxScanPatLen)
ScanTIDs == (0..MaxBlock) \X (1..MaxScanOffset)

Min(a, b) == IF a < b THEN a ELSE b

VARIABLES
    \* BiscuitIndex
    pos_idx, neg_idx,
    length_bitmaps, length_ge_bitmaps,
    max_length, max_len,
    tids, data_cache, num_records,
    tombstones, free_list, tombstone_count,
    insert_count, delete_count,
    \* IndexBulkDeleteResult of the last bulk_delete
    tuples_removed,
    \* BiscuitScanOpaque of the open scan and the scan descriptor's xs_heaptid
    so_results, so_current, xs_heaptid,
    \* the BiscuitScanOpaque of each of several scans open on the index at once
    scans,
    \* observer of an insert-then-delete experiment: its phase, the TID of the
    \* inserted row, the string the host handed to insert, and what every
    \* pattern returned before the insert
    pr_phase, pr_tid, pr_str, pr_before,
    \* observer of the last bulk_delete call: the slots its callback was
    \* invoked for, in order, and the index as the call found it
    bd_call,
    \* observer of each scan descriptor: what its last rescan materialised,
    \* what every gettuple call since has returned, and how many calls had
    \* returned when the index was first changed after that rescan (-1: not yet)
    scan_obs,
    \* observer of a reload: the rows handed to insert so far, in order, and
    \* what the index they produced held and answered when it was reloaded
    twin,
    \* the relation the index belongs to: whether a BiscuitIndex has been
    \* allocated, whether it is attached as rd_amcache, the message of the
    \* last error raised, the heap rows the last build scanned and the number
    \* of index columns it was asked for
    rel,
    \* idx->capacity and the number of elements the arrays idx->tids and
    \* idx->data_cache are allocated for
    capacity, alloc_len,
    \* the ParsedPattern the last biscuit_parse_pattern call produced, with
    \* the capacity of its arrays
    last_parse,
    \* the rows of the indexed table, and the insert that is past its
    \* cache-miss reload and has its own tuple still to add
    table_rows, ins_pending,
    \* two bitmaps of the word-array implementation (the build without
    \* HAVE_ROARING) and the set of integers each one stands for
    fb, fb_set

idxvars == <<pos_idx, neg_idx, length_bitmaps, length_ge_bitmaps,
             max_length, max_len, tids, data_cache, num_records,
             tombstones, free_list, tombstone_count,
             insert_count, delete_count>>
scanvars == <<so_results, so_current, xs_heaptid, scans>>
obsvars == <<pr_phase, pr_tid, pr_str, pr_before, bd_call, scan_obs, twin>>
hostvars == <<rel, capacity, alloc_len>>
auxvars == <<last_parse, table_rows, ins_pending, fb, fb_set>>
vars == <<idxvars, tuples_removed, scanvars, obsvars, hostvars, auxvars>>

(***************************************************************************)
(* RoaringBitmap wrapper                                                   *)
(***************************************************************************)
biscuit_roaring_create == {}
biscuit_roaring_add(rb, value) == rb \cup {value}
\* a remove that leaves the bit set
roaring_remove_nothing(rb, value) == rb
biscuit_roaring_remove(rb, value) == rb \ {value}
biscuit_roaring_count(rb) == Cardinality(rb)
biscuit_roaring_is_empty(rb) == Cardinality(rb) = 0
biscuit_roaring_copy(rb) == rb
biscuit_roaring_and_inplace(a, b) == a \cap b
biscuit_roaring_or_inplace(a, b) == a \cup b
biscuit_roaring_andnot_inplace(a, b) == a \ b

\* the members in ascending order
RECURSIVE biscuit_roaring_to_array(_)
biscuit_roaring_to_array(rb) ==
    IF rb = {} THEN <<>>
    ELSE LET m == CHOOSE x \in rb : \A y \in rb : x <= y
         IN <<m>> \o biscuit_roaring_to_array(rb \ {m})

(***************************************************************************)
(* TID sorting                                                             *)
(***************************************************************************)
\* a comparator that forgets the offset half of the key
compare_blocks_only(a, b) ==
    IF a[1] < b[1] THEN -1
    ELSE IF a[1] > b[1] THEN 1
    ELSE 0

biscuit_compare_tids(a, b) ==
    IF a[1] < b[1] THEN -1
    ELSE IF a[1] > b[1] THEN 1
    ELSE IF a[2] < b[2] THEN -1
    ELSE IF a[2] > b[2] THEN 1
    ELSE 0

\* qsort with biscuit_compare_tids: the permutation ordered by the comparator
RECURSIVE SortedInsert(_, _)
SortedInsert(sorted, t) ==
    IF sorted = <<>> THEN <<t>>
    ELSE IF biscuit_compare_tids(t, Head(sorted)) <= 0 THEN <<t>> \o sorted
    ELSE <<Head(sorted)>> \o SortedInsert(Tail(sorted), t)

RECURSIVE QSort(_)
QSort(arr) ==
    IF arr = <<>> THEN <<>>
    ELSE SortedInsert(QSort(Tail(arr)), Head(arr))

biscuit_sort_tids_by_block(arr) ==
    IF Len(arr) > 1 THEN QSort(arr) ELSE arr

(***************************************************************************)
(* Bitmap access: per-byte entry lists, binary search                      *)
(***************************************************************************)
\* index (1-based) of the entry for pos in entries, 0 when absent
RECURSIVE BinarySearch(_, _, _, _)
BinarySearch(entries, left, right, pos) ==
    IF left > right THEN 0
    ELSE LET mid == (left + right) \div 2
         IN IF entries[mid + 1].pos = pos THEN mid + 1
            ELSE IF entries[mid + 1].pos < pos
                 THEN BinarySearch(entries, mid + 1, right, pos)
                 ELSE BinarySearch(entries, left, mid - 1, pos)

biscuit_get_pos_bitmap(pidx, ch, pos) ==
    LET e == pidx[ch]
        k == BinarySearch(e, 0, Len(e) - 1, pos)
    IN IF k = 0 THEN NULL_BM ELSE e[k].bitmap

biscuit_get_neg_bitmap(nidx, ch, neg_offset) ==
    LET e == nidx[ch]
        k == BinarySearch(e, 0, Len(e) - 1, neg_offset)
    IN IF k = 0 THEN NULL_BM ELSE e[k].bitmap

\* the search loop of biscuit_set_pos_bitmap: <<found index or 0, insert_pos>>
RECURSIVE SetSearch(_, _, _, _, _)
SetSearch(entries, left, right, insert_pos, pos) ==
    IF left > right THEN <<0, insert_pos>>
    ELSE LET mid == (left + right) \div 2
         IN IF entries[mid + 1].pos = pos THEN <<mid + 1, insert_pos>>
            ELSE IF entries[mid + 1].pos < pos
                 THEN SetSearch(entries, mid + 1, right, insert_pos, pos)
                 ELSE SetSearch(entries, left, mid - 1, mid, pos)

\* a new entry put behind the last one instead of at its place in the order
SetEntryAtEnd(entries, pos, bm) ==
    LET r == SetSearch(entries, 0, Len(entries) - 1, Len(entries), pos)
    IN IF r[1] # 0
       THEN [entries EXCEPT ![r[1]] = [pos |-> pos, bitmap |-> bm]]
       ELSE Append(entries, [pos |-> pos, bitmap |-> bm])

\* entries after biscuit_set_pos_bitmap(idx, ch, pos, bm) on one entry list
SetEntry(entries, pos, bm) ==
    LET r == SetSearch(entries, 0, Len(entries) - 1, Len(entries), pos)
    IN IF r[1] # 0
       THEN [entries EXCEPT ![r[1]] = [pos |-> pos, bitmap |-> bm]]
       ELSE SubSeq(entries, 1, r[2])
            \o <<[pos |-> pos, bitmap |-> bm]>>
            \o SubSeq(entries, r[2] + 1, Len(entries))

biscuit_set_pos_bitmap(pidx, ch, pos, bm) ==
    [pidx EXCEPT ![ch] = SetEntry(pidx[ch], pos, bm)]

biscuit_set_neg_bitmap(nidx, ch, neg_offset, bm) ==
    [nidx EXCEPT ![ch] = SetEntry(nidx[ch], neg_offset, bm)]

(***************************************************************************)
(* Pattern matching over the current index                                 *)
(***************************************************************************)
\* the bound taken from max_len (longest record) instead of max_length
get_length_ge_max_len(min_len) ==
    IF min_len >= max_len THEN biscuit_roaring_create
    ELSE biscuit_roaring_copy(length_ge_bitmaps[min_len])

biscuit_get_length_ge(min_len) ==
    IF min_len >= max_length THEN biscuit_roaring_create
    ELSE biscuit_roaring_copy(length_ge_bitmaps[min_len])

IsAllWildcards(part) == \A i \in 1..Len(part) : part[i] = "_"

\* the loop over the concrete characters of part; result = NULL_BM is the
\* NULL result pointer before the first concrete character
RECURSIVE MatchAtPosLoop(_, _, _, _)
MatchAtPosLoop(part, start_pos, i, result) ==
    IF i >= Len(part)
    THEN IF result = NULL_BM THEN biscuit_roaring_create ELSE result
    ELSE IF part[i + 1] = "_"
    THEN MatchAtPosLoop(part, start_pos, i + 1, result)
    ELSE LET char_bm == biscuit_get_pos_bitmap(pos_idx, part[i + 1], start_pos + i)
         IN IF char_bm = NULL_BM THEN biscuit_roaring_create
            ELSE IF result = NULL_BM
            THEN MatchAtPosLoop(part, start_pos, i + 1, biscuit_roaring_copy(char_bm))
            ELSE LET r == biscuit_roaring_and_inplace(result, char_bm)
                 IN IF biscuit_roaring_is_empty(r) THEN r
                    ELSE MatchAtPosLoop(part, start_pos, i + 1, r)

biscuit_match_part_at_pos(part, start_pos) ==
    IF IsAllWildcards(part)
    THEN UNION {LET cb == biscuit_get_pos_bitmap(pos_idx, ch, start_pos)
                IN IF cb = NULL_BM THEN {} ELSE cb : ch \in Chars}
    ELSE MatchAtPosLoop(part, start_pos, 0, NULL_BM)

RECURSIVE MatchAtEndLoop(_, _, _)
MatchAtEndLoop(part, i, result) ==
    IF i >= Len(part)
    THEN IF result = NULL_BM THEN biscuit_roaring_create ELSE result
    ELSE IF part[i + 1] = "_"
    THEN MatchAtEndLoop(part, i + 1, result)
    ELSE LET neg_pos == -(Len(part) - i)
             char_bm == biscuit_get_neg_bitmap(neg_idx, part[i + 1], neg_pos)
         IN IF char_bm = NULL_BM THEN biscuit_roaring_create
            ELSE IF result = NULL_BM
            THEN MatchAtEndLoop(part, i + 1, biscuit_roaring_copy(char_bm))
            ELSE LET r == biscuit_roaring_and_inplace(result, char_bm)
                 IN IF biscuit_roaring_is_empty(r) THEN r
                    ELSE MatchAtEndLoop(part, i + 1, r)

biscuit_match_part_at_end(part) ==
    IF IsAllWildcards(part)
    THEN biscuit_get_length_ge(Len(part))
    ELSE MatchAtEndLoop(part, 0, NULL_BM)

\* the for loop of biscuit_parse_pattern: <<parts, part_start>> after it
RECURSIVE ParseLoop(_, _, _, _)
ParseLoop(pattern, i, part_start, parts) ==
    IF i >= Len(pattern) THEN <<parts, part_start>>
    ELSE IF pattern[i + 1] = "%"
    THEN LET part_len == i - part_start
         IN ParseLoop(pattern, i + 1, i + 1,
                      IF part_len > 0
                      THEN Append(parts, SubSeq(pattern, part_start + 1, i))
                      ELSE parts)
    ELSE ParseLoop(pattern, i + 1, part_start, parts)

biscuit_parse_pattern(pattern) ==
    LET plen == Len(pattern)
        starts_percent == plen > 0 /\ pattern[1] = "%"
        ends_percent == plen > 0 /\ pattern[plen] = "%"
        r == ParseLoop(pattern, IF starts_percent THEN 1 ELSE 0,
                       IF starts_percent THEN 1 ELSE 0, <<>>)
        part_start == r[2]
        part_len == IF ends_percent THEN plen - 1 - part_start
                    ELSE plen - part_start
        parts == IF part_start < plen
                    /\ (~ends_percent \/ part_start < plen - 1)
                    /\ part_len > 0
                 THEN Append(r[1], SubSeq(pattern, part_start + 1,
                                           part_start + part_len))
                 ELSE r[1]
    IN [parts |-> parts, starts_percent |-> starts_percent,
        ends_percent |-> ends_percent]

RECURSIVE SumLens(_, _)
\* sum of part_lens[i] for i = from .. part_count - 1 (0-based)
SumLens(parts, from) ==
    IF from >= Len(parts) THEN 0
    ELSE Len(parts[from + 1]) + SumLens(parts, from + 1)

\* the bitmap biscuit_recursive_windowed_match ORs into result
RECURSIVE biscuit_recursive_windowed_match(_, _, _, _, _, _)
biscuit_recursive_windowed_match(parts, ends_percent, part_idx, min_pos, current_candidates, maxlen) ==
    IF part_idx >= Len(parts) THEN current_candidates
    ELSE IF part_idx = Len(parts) - 1 /\ ~ends_percent
    THEN biscuit_roaring_and_inplace(
             biscuit_match_part_at_end(parts[part_idx + 1]), current_candidates)
    ELSE LET remaining_len == SumLens(parts, part_idx + 1)
             plen == Len(parts[part_idx + 1])
             max_pos == maxlen - plen - remaining_len
         IN IF min_pos > max_pos THEN {}
            ELSE UNION {
                LET part_at_pos == biscuit_roaring_and_inplace(
                        biscuit_match_part_at_pos(parts[part_idx + 1], pos),
                        current_candidates)
                IN IF ~biscuit_roaring_is_empty(part_at_pos)
                   THEN biscuit_recursive_windowed_match(parts, ends_percent,
                            part_idx + 1, pos + plen, part_at_pos, maxlen)
                   ELSE {}
                : pos \in min_pos..max_pos}

AllRecords == 0..(num_records - 1)

biscuit_query_pattern(pattern) ==
    LET plen == Len(pattern)
        parsed == biscuit_parse_pattern(pattern)
        parts == parsed.parts
        min_len == SumLens(parts, 0)
    IN IF plen = 0
       THEN IF max_length > 0 /\ length_bitmaps[0] # NULL_BM
            THEN biscuit_roaring_copy(length_bitmaps[0])
            ELSE biscuit_roaring_create
       ELSE IF plen = 1 /\ pattern[1] = "%" THEN AllRecords
       ELSE IF Len(parts) = 0 THEN AllRecords
       ELSE IF Len(parts) = 1
       THEN IF ~parsed.starts_percent /\ ~parsed.ends_percent
            THEN LET result == biscuit_match_part_at_pos(parts[1], 0)
                 IN IF min_len < max_length /\ length_bitmaps[min_len] # NULL_BM
                    THEN biscuit_roaring_and_inplace(result, length_bitmaps[min_len])
                    ELSE result
            ELSE IF ~parsed.starts_percent
            THEN biscuit_roaring_and_inplace(
                     biscuit_match_part_at_pos(parts[1], 0),
                     biscuit_get_length_ge(min_len))
            ELSE IF ~parsed.ends_percent
            THEN biscuit_roaring_and_inplace(
                     biscuit_match_part_at_end(parts[1]),
                     biscuit_get_length_ge(min_len))
            ELSE UNION {biscuit_match_part_at_pos(parts[1], i)
                        : i \in 0..(max_len - Len(parts[1]))}
       ELSE biscuit_recursive_windowed_match(parts, parsed.ends_percent, 0, 0,
                biscuit_get_length_ge(min_len), max_len)

(***************************************************************************)
(* Result materialisation                                                  *)
(***************************************************************************)
\* the tids[] copies made by the loop over the bitmap's members, in slot order
RECURSIVE CollectTids(_)
CollectTids(indices) ==
    IF indices = <<>> THEN <<>>
    ELSE IF Head(indices) < num_records
         THEN <<tids[Head(indices)]>> \o CollectTids(Tail(indices))
         ELSE CollectTids(Tail(indices))

biscuit_collect_sorted_tids(result) ==
    IF biscuit_roaring_count(result) = 0 THEN <<>>
    ELSE LET out == CollectTids(biscuit_roaring_to_array(result))
         IN IF Len(out) > 0 THEN biscuit_sort_tids_by_block(out) ELSE out

\* the slots whose TIDs biscuit_rescan materialises for pattern
RescanBitmap(pattern) ==
    IF num_records > 0
    THEN LET result == biscuit_query_pattern(pattern)
         IN IF tombstone_count > 0
            THEN biscuit_roaring_andnot_inplace(result, tombstones)
            ELSE result
    ELSE {}

\* so->results after biscuit_rescan with key pattern
RescanResults(pattern) == biscuit_collect_sorted_tids(RescanBitmap(pattern))

(***************************************************************************)
(* Index maintenance                                                       *)
(***************************************************************************)
\* biscuit_init_crud_structures and the empty tables of biscuit_build
EmptyCharIndex == [ch \in Chars |-> <<>>]

\* bm = get(..); if (!bm) { bm = create(); set(.., bm); } add(bm, rec_idx);
AddToEntries(entries, pos, rec_idx) ==
    LET k == BinarySearch(entries, 0, Len(entries) - 1, pos)
    IN IF k = 0
       THEN SetEntry(entries, pos,
                     biscuit_roaring_add(biscuit_roaring_create, rec_idx))
       ELSE [entries EXCEPT ![k] =
                [pos |-> entries[k].pos,
                 bitmap |-> biscuit_roaring_add(entries[k].bitmap, rec_idx)]]

\* the loop "for (pos = 0; pos < len; pos++)" of biscuit_insert / biscuit_build:
\* <<pos_idx, neg_idx>> after it
RECURSIVE IndexChars(_, _, _, _, _, _)
IndexChars(pidx, nidx, str, len, pos, rec_idx) ==
    IF pos >= len THEN <<pidx, nidx>>
    ELSE LET uch == str[pos + 1]
             neg_offset == -(len - pos)
         IN IndexChars(
                [pidx EXCEPT ![uch] = AddToEntries(pidx[uch], pos, rec_idx)],
                [nidx EXCEPT ![uch] = AddToEntries(nidx[uch], neg_offset, rec_idx)],
                str, len, pos + 1, rec_idx)

RECURSIVE RemoveFromEntries(_, _)
RemoveFromEntries(entries, rec_idx) ==
    IF entries = <<>> THEN <<>>
    ELSE <<[pos |-> Head(entries).pos,
            bitmap |-> biscuit_roaring_remove(Head(entries).bitmap, rec_idx)]>>
         \o RemoveFromEntries(Tail(entries), rec_idx)

\* biscuit_remove_from_all_indices on the four bitmap families:
\* [pos, neg, eq, ge] after it
biscuit_remove_from_all_indices(pidx, nidx, leq, lge, maxlength, rec_idx) ==
    [pos |-> [ch \in Chars |-> RemoveFromEntries(pidx[ch], rec_idx)],
     neg |-> [ch \in Chars |-> RemoveFromEntries(nidx[ch], rec_idx)],
     eq  |-> [j \in DOMAIN leq |->
                IF j < maxlength /\ leq[j] # NULL_BM
                THEN biscuit_roaring_remove(leq[j], rec_idx) ELSE leq[j]],
     ge  |-> [j \in DOMAIN lge |->
                IF j < maxlength /\ lge[j] # NULL_BM
                THEN biscuit_roaring_remove(lge[j], rec_idx) ELSE lge[j]]]

biscuit_pop_free_slot_ok == Len(free_list) # 0

\* a pop that takes the slot pushed first
pop_oldest_free_slot(fl) ==
    [slot |-> fl[1], free_list |-> SubSeq(fl, 2, Len(fl))]

\* *slot = idx->free_list[--idx->free_count]
biscuit_pop_free_slot(fl) ==
    [slot |-> fl[Len(fl)], free_list |-> SubSeq(fl, 1, Len(fl) - 1)]

\* new length arrays that start out empty
grow_without_copy(eq, ge, old_max, new_max) ==
    [eq |-> [j \in 0..(new_max - 1) |-> NULL_BM],
     ge |-> [j \in 0..new_max |-> biscuit_roaring_create]]

\* new_bitmaps / new_ge_bitmaps: the first old_max entries are copied
grow_length_arrays(eq, ge, old_max, new_max) ==
    [eq |-> [j \in 0..(new_max - 1) |-> IF j < old_max THEN eq[j] ELSE NULL_BM],
     ge |-> [j \in 0..new_max |->
                IF j < old_max THEN ge[j] ELSE biscuit_roaring_create]]
\* biscuit_insert(values = str_in, isnull = false, ht_ctid)
biscuit_insert(str_in, ht_ctid) ==
    LET len == Min(Len(str_in), MAX_POSITIONS)
        str == SubSeq(str_in, 1, len)
        reuse == biscuit_pop_free_slot_ok
        rec_idx == IF reuse THEN biscuit_pop_free_slot(free_list).slot
                   ELSE num_records
        \* slot reuse: clear the tombstone, drop the old imprint
        cleaned ==
            IF reuse /\ data_cache[rec_idx] # NULL_STR
            THEN biscuit_remove_from_all_indices(pos_idx, neg_idx,
                     length_bitmaps, length_ge_bitmaps, max_length, rec_idx)
            ELSE [pos |-> pos_idx, neg |-> neg_idx,
                  eq |-> length_bitmaps, ge |-> length_ge_bitmaps]
        chars == IndexChars(cleaned.pos, cleaned.neg, str, len, 0, rec_idx)
        grow == len >= max_length
        old_max == max_length
        new_max == IF grow THEN len + 1 ELSE max_length
        \* new_bitmaps / new_ge_bitmaps
        grown == grow_length_arrays(cleaned.eq, cleaned.ge, old_max, new_max)
        eq1 == IF grow THEN grown.eq ELSE cleaned.eq
        ge1 == IF grow THEN grown.ge ELSE cleaned.ge
        eq2 == [eq1 EXCEPT ![len] =
                   biscuit_roaring_add(
                       IF eq1[len] = NULL_BM THEN biscuit_roaring_create
                       ELSE eq1[len], rec_idx)]
        ge2 == [j \in DOMAIN ge1 |->
                   IF j <= len /\ j < new_max
                   THEN biscuit_roaring_add(ge1[j], rec_idx) ELSE ge1[j]]
    IN /\ free_list' = IF reuse THEN biscuit_pop_free_slot(free_list).free_list
                       ELSE free_list
       /\ tombstones' = IF reuse THEN biscuit_roaring_remove(tombstones, rec_idx)
                        ELSE tombstones
       /\ tombstone_count' = IF reuse THEN tombstone_count - 1 ELSE tombstone_count
       /\ num_records' = IF reuse THEN num_records ELSE num_records + 1
       /\ tids' = [s \in 0..(num_records' - 1) |->
                       IF s = rec_idx THEN ht_ctid ELSE tids[s]]
       /\ data_cache' = [s \in 0..(num_records' - 1) |->
                             IF s = rec_idx THEN str ELSE data_cache[s]]
       /\ max_len' = IF len > max_len THEN len ELSE max_len
       /\ pos_idx' = chars[1]
       /\ neg_idx' = chars[2]
       /\ max_length' = new_max
       /\ length_bitmaps' = eq2
       /\ length_ge_bitmaps' = ge2
       /\ insert_count' = insert_count + 1
       /\ UNCHANGED delete_count

\* the slots that hold a record: cached string present and not tombstoned
\* (the count biscuit_index_stats reports as active records)
LiveSlots == {s \in AllRecords : data_cache[s] # NULL_STR /\ s \notin tombstones}
active_records == Cardinality(LiveSlots)

\* the slot loop without its test for an emptied slot
RECURSIVE DeleteLoopNoNullSkip(_, _, _)
DeleteLoopNoNullSkip(i, dead, st) ==
    IF i >= num_records THEN st
    ELSE IF i \in st.tombstones THEN DeleteLoopNoNullSkip(i + 1, dead, st)
    ELSE IF tids[i] \in dead
    THEN DeleteLoopNoNullSkip(i + 1, dead,
             [tombstones |-> biscuit_roaring_add(st.tombstones, i),
              tombstone_count |-> st.tombstone_count + 1,
              free_list |-> Append(st.free_list, i),
              tuples_removed |-> st.tuples_removed + 1,
              delete_count |-> st.delete_count + 1,
              called |-> Append(st.called, i)])
    ELSE DeleteLoopNoNullSkip(i + 1, dead,
             [st EXCEPT !.called = Append(st.called, i)])

\* the slot loop without its test for a tombstoned slot
RECURSIVE DeleteLoopNoTombstoneSkip(_, _, _)
DeleteLoopNoTombstoneSkip(i, dead, st) ==
    IF i >= num_records THEN st
    ELSE IF data_cache[i] = NULL_STR
    THEN DeleteLoopNoTombstoneSkip(i + 1, dead, st)
    ELSE IF tids[i] \in dead
    THEN DeleteLoopNoTombstoneSkip(i + 1, dead,
             [tombstones |-> biscuit_roaring_add(st.tombstones, i),
              tombstone_count |-> st.tombstone_count + 1,
              free_list |-> Append(st.free_list, i),
              tuples_removed |-> st.tuples_removed + 1,
              delete_count |-> st.delete_count + 1,
              called |-> Append(st.called, i)])
    ELSE DeleteLoopNoTombstoneSkip(i + 1, dead,
             [st EXCEPT !.called = Append(st.called, i)])

\* the loop over the slots in biscuit_bulkdelete; callback(tid) is tid \in dead;
\* called lists the slots the callback was invoked for
RECURSIVE DeleteLoop(_, _, _)
DeleteLoop(i, dead, st) ==
    IF i >= num_records THEN st
    ELSE IF data_cache[i] = NULL_STR THEN DeleteLoop(i + 1, dead, st)
    ELSE IF i \in st.tombstones THEN DeleteLoop(i + 1, dead, st)
    ELSE IF tids[i] \in dead
    THEN DeleteLoop(i + 1, dead,
             [tombstones |-> biscuit_roaring_add(st.tombstones, i),
              tombstone_count |-> st.tombstone_count + 1,
              free_list |-> Append(st.free_list, i),
              tuples_removed |-> st.tuples_removed + 1,
              delete_count |-> st.delete_count + 1,
              called |-> Append(st.called, i)])
    ELSE DeleteLoop(i + 1, dead, [st EXCEPT !.called = Append(st.called, i)])

\* the slot loop with stats = NULL: tuples_removed starts from palloc0
DeleteLoopStart(dead) ==
    DeleteLoop(0, dead,
        [tombstones |-> tombstones,
         tombstone_count |-> tombstone_count,
         free_list |-> free_list,
         tuples_removed |-> 0,
         delete_count |-> delete_count,
         called |-> <<>>])

RECURSIVE AndNotEntries(_, _)
AndNotEntries(entries, tomb) ==
    IF entries = <<>> THEN <<>>
    ELSE <<[pos |-> Head(entries).pos,
            bitmap |-> biscuit_roaring_andnot_inplace(Head(entries).bitmap, tomb)]>>
         \o AndNotEntries(Tail(entries), tomb)

\* the cleanup with the tombstone set left in place and the counter lowered
\* by the number of slots cleaned
CleanupKeepsTombstones(ix) ==
    [pos_idx |-> [ch \in Chars |-> AndNotEntries(ix.pos_idx[ch], ix.tombstones)],
     neg_idx |-> [ch \in Chars |-> AndNotEntries(ix.neg_idx[ch], ix.tombstones)],
     length_bitmaps |-> ix.length_bitmaps,
     length_ge_bitmaps |-> ix.length_ge_bitmaps,
     max_length |-> ix.max_length,
     data_cache |-> [s \in DOMAIN ix.data_cache |->
                        IF s \in ix.tombstones THEN NULL_STR ELSE ix.data_cache[s]],
     tids |-> ix.tids,
     free_list |-> ix.free_list,
     tombstones |-> ix.tombstones,
     tombstone_count |-> ix.tombstone_count - biscuit_roaring_count(ix.tombstones)]

\* the cleanup with the cached strings of the tombstoned slots left in place
CleanupKeepsStrings(ix) ==
    [pos_idx |-> [ch \in Chars |-> AndNotEntries(ix.pos_idx[ch], ix.tombstones)],
     neg_idx |-> [ch \in Chars |-> AndNotEntries(ix.neg_idx[ch], ix.tombstones)],
     length_bitmaps |->
         [j \in DOMAIN ix.length_bitmaps |->
             IF j < ix.max_length /\ ix.length_bitmaps[j] # NULL_BM
             THEN biscuit_roaring_andnot_inplace(ix.length_bitmaps[j], ix.tombstones)
             ELSE ix.length_bitmaps[j]],
     length_ge_bitmaps |->
         [j \in DOMAIN ix.length_ge_bitmaps |->
             IF j < ix.max_length /\ ix.length_ge_bitmaps[j] # NULL_BM
             THEN biscuit_roaring_andnot_inplace(ix.length_ge_bitmaps[j], ix.tombstones)
             ELSE ix.length_ge_bitmaps[j]],
     max_length |-> ix.max_length,
     data_cache |-> ix.data_cache,
     tids |-> ix.tids,
     free_list |-> ix.free_list,
     tombstones |-> biscuit_roaring_create,
     tombstone_count |-> 0]
\* the cleanup block of biscuit_bulkdelete as a function of the index fields
\* it reads and writes
CleanupBlock(ix) ==
    [pos_idx |-> [ch \in Chars |-> AndNotEntries(ix.pos_idx[ch], ix.tombstones)],
     neg_idx |-> [ch \in Chars |-> AndNotEntries(ix.neg_idx[ch], ix.tombstones)],
     length_bitmaps |->
         [j \in DOMAIN ix.length_bitmaps |->
             IF j < ix.max_length /\ ix.length_bitmaps[j] # NULL_BM
             THEN biscuit_roaring_andnot_inplace(ix.length_bitmaps[j], ix.tombstones)
             ELSE ix.length_bitmaps[j]],
     length_ge_bitmaps |->
         [j \in DOMAIN ix.length_ge_bitmaps |->
             IF j < ix.max_length /\ ix.length_ge_bitmaps[j] # NULL_BM
             THEN biscuit_roaring_andnot_inplace(ix.length_ge_bitmaps[j], ix.tombstones)
             ELSE ix.length_ge_bitmaps[j]],
     max_length |-> ix.max_length,
     data_cache |-> [s \in DOMAIN ix.data_cache |->
                        IF s \in ix.tombstones THEN NULL_STR ELSE ix.data_cache[s]],
     tids |-> ix.tids,
     free_list |-> ix.free_list,
     tombstones |-> biscuit_roaring_create,
     tombstone_count |-> 0]

\* the index fields the cleanup block works on, with tombstone set tomb
CleanupFields(tomb, count, fl) ==
    [pos_idx |-> pos_idx, neg_idx |-> neg_idx,
     length_bitmaps |-> length_bitmaps,
     length_ge_bitmaps |-> length_ge_bitmaps,
     max_length |-> max_length, data_cache |-> data_cache,
     tids |-> tids, free_list |-> fl,
     tombstones |-> tomb, tombstone_count |-> count]

\* the cleanup block of biscuit_bulkdelete, applied with tombstone set tomb
Cleanup(tomb) ==
    LET c == CleanupBlock(CleanupFields(tomb, tombstone_count, free_list))
    IN /\ pos_idx' = c.pos_idx
       /\ neg_idx' = c.neg_idx
       /\ length_bitmaps' = c.length_bitmaps
       /\ length_ge_bitmaps' = c.length_ge_bitmaps
       /\ data_cache' = c.data_cache
       /\ tombstones' = c.tombstones
       /\ tombstone_count' = c.tombstone_count

\* a bulk_delete that runs the cleanup block whatever tombstone_count is
bulkdelete_eager(dead) ==
    LET st == DeleteLoopStart(dead)
    IN /\ free_list' = st.free_list
       /\ tuples_removed' = st.tuples_removed
       /\ delete_count' = st.delete_count
       /\ Cleanup(st.tombstones)
       /\ UNCHANGED <<max_length, max_len, tids, num_records, insert_count>>
\* biscuit_bulkdelete(info, stats = NULL, callback, callback_state)
biscuit_bulkdelete(dead) ==
    LET st == DeleteLoopStart(dead)
    IN /\ free_list' = st.free_list
       /\ tuples_removed' = st.tuples_removed
       /\ delete_count' = st.delete_count
       /\ IF st.tombstone_count >= TOMBSTONE_CLEANUP_THRESHOLD
          THEN Cleanup(st.tombstones)
          ELSE /\ tombstones' = st.tombstones
               /\ tombstone_count' = st.tombstone_count
               /\ UNCHANGED <<pos_idx, neg_idx, length_bitmaps,
                              length_ge_bitmaps, data_cache>>
       /\ UNCHANGED <<max_length, max_len, tids, num_records, insert_count>>

(***************************************************************************)
(* The state machine                                                       *)
(***************************************************************************)
ScanIds == 1..MaxScans

\* no scan descriptor allocated
NoScan == [open |-> FALSE, results |-> <<>>, current |-> 0]

\* what gettuple returning false is logged as (no valid TID has offset 0)
NoTuple == <<0, 0>>

\* nothing observed of a scan descriptor yet
NoScanObs ==
    [rescanned |-> FALSE, r |-> <<>>, returned |-> <<>>, mutated_at |-> -1]

\* the relation after a build that scanned n heap rows
BuiltRel(n) ==
    [allocated |-> TRUE, rd_amcache |-> TRUE, error |-> "", scanned |-> n,
     natts |-> 1]

\* no row inserted and no reload observed yet
NoTwin ==
    [phase |-> "inserting", heap |-> <<>>, answers |-> <<>>,
     forward |-> <<>>, reverse |-> <<>>, l_eq |-> <<>>, l_ge |-> <<>>]

\* no bulk_delete call observed yet
NoCall ==
    [seen |-> FALSE, dead |-> {}, called |-> <<>>, live |-> {}, yes |-> {},
     tombstones |-> {}, free_list |-> <<>>, loop_tombstones |-> {},
     loop_free_list |-> <<>>, removed |-> 0, again |-> 0]

(***************************************************************************)
(* RoaringBitmap without HAVE_ROARING: an array of capacity blocks, the    *)
(* first num_blocks of them in use.  A block is the set of the bit         *)
(* positions set in its word: | is \cup, & is \cap, & ~ is \.              *)
(***************************************************************************)
BitmapIds == {1, 2}
BitValues == 0..MaxBitValue

fb_create ==
    [blocks |-> [j \in 0..(FB_CAPACITY - 1) |-> {}],
     num_blocks |-> 0, capacity |-> FB_CAPACITY]

fb_add(rb, value) ==
    LET block == value \div WORD_BITS
        bit == value % WORD_BITS
        new_cap == (block + 1) * 2
        grown == block >= rb.capacity
        blocks == IF grown
                  THEN [j \in 0..(new_cap - 1) |->
                           IF j < rb.num_blocks THEN rb.blocks[j] ELSE {}]
                  ELSE rb.blocks
    IN [blocks |-> [j \in DOMAIN blocks |->
                       IF j = block THEN blocks[j] \cup {bit} ELSE blocks[j]],
        num_blocks |-> IF block >= rb.num_blocks THEN block + 1 ELSE rb.num_blocks,
        capacity |-> IF grown THEN new_cap ELSE rb.capacity]

\* palloc0(new_cap * sizeof(uint64_t)) raises an error above MaxAllocSize
fb_add_fails(rb, value) ==
    LET block == value \div WORD_BITS
    IN block >= rb.capacity /\ (block + 1) * 2 > MaxAllocBlocks

fb_remove(rb, value) ==
    LET block == value \div WORD_BITS
        bit == value % WORD_BITS
    IN IF block < rb.num_blocks
       THEN [rb EXCEPT !.blocks =
                [j \in DOMAIN rb.blocks |->
                    IF j = block THEN rb.blocks[j] \ {bit} ELSE rb.blocks[j]]]
       ELSE rb

RECURSIVE fb_count_from(_, _)
fb_count_from(rb, i) ==
    IF i >= rb.num_blocks THEN 0
    ELSE Cardinality(rb.blocks[i]) + fb_count_from(rb, i + 1)

fb_count(rb) == fb_count_from(rb, 0)

fb_is_empty(rb) == \A i \in 0..(rb.num_blocks - 1) : rb.blocks[i] = {}

fb_copy(rb) ==
    IF rb.num_blocks > 0
    THEN [blocks |-> [j \in 0..(rb.num_blocks - 1) |-> rb.blocks[j]],
          num_blocks |-> rb.num_blocks, capacity |-> rb.num_blocks]
    ELSE fb_create

fb_and_inplace(a, b) ==
    LET min == Min(a.num_blocks, b.num_blocks)
    IN [blocks |-> [j \in DOMAIN a.blocks |->
                       IF j < min THEN a.blocks[j] \cap b.blocks[j]
                       ELSE IF j < a.num_blocks THEN {}
                       ELSE a.blocks[j]],
        num_blocks |-> min, capacity |-> a.capacity]

fb_or_inplace(a, b) ==
    LET grown == b.num_blocks > a.capacity
        blocks == IF grown
                  THEN [j \in 0..(b.num_blocks - 1) |->
                           IF j < a.num_blocks THEN a.blocks[j] ELSE {}]
                  ELSE a.blocks
        min == Min(a.num_blocks, b.num_blocks)
    IN [blocks |-> [j \in DOMAIN blocks |->
                       IF j < min THEN blocks[j] \cup b.blocks[j]
                       ELSE IF j >= a.num_blocks /\ j < b.num_blocks
                       THEN b.blocks[j]
                       ELSE blocks[j]],
        num_blocks |-> IF b.num_blocks > a.num_blocks THEN b.num_blocks
                       ELSE a.num_blocks,
        capacity |-> IF grown THEN b.num_blocks ELSE a.capacity]

fb_andnot_inplace(a, b) ==
    LET min == Min(a.num_blocks, b.num_blocks)
    IN [a EXCEPT !.blocks =
           [j \in DOMAIN a.blocks |->
               IF j < min THEN a.blocks[j] \ b.blocks[j] ELSE a.blocks[j]]]

\* the inner while loop: the lowest bit set first
RECURSIVE BlockBits(_, _)
BlockBits(base, bits) ==
    IF bits = {} THEN <<>>
    ELSE LET ctz == CHOOSE x \in bits : \A y \in bits : x <= y
         IN <<base + ctz>> \o BlockBits(base, bits \ {ctz})

RECURSIVE fb_to_array_from(_, _)
fb_to_array_from(rb, i) ==
    IF i >= rb.num_blocks THEN <<>>
    ELSE BlockBits(i * WORD_BITS, rb.blocks[i]) \o fb_to_array_from(rb, i + 1)

fb_to_array(rb) == IF fb_count(rb) = 0 THEN <<>> ELSE fb_to_array_from(rb, 0)

\* no insert is between its reload and its own tuple
NoPending == [active |-> FALSE, str |-> <<>>, tid |-> <<0, 0>>]

\* no pattern parsed yet
NoParse ==
    [phase |-> "idle", pattern |-> <<>>, parts |-> <<>>, part_cap |-> 0,
     starts_percent |-> FALSE, ends_percent |-> FALSE, error |-> ""]

\* the fields of an index without records, no scan open
EmptyIndex ==
    /\ pos_idx = EmptyCharIndex
    /\ neg_idx = EmptyCharIndex
    /\ max_len = 0
    /\ max_length = 1
    /\ length_bitmaps = [j \in 0..0 |-> NULL_BM]
    /\ length_ge_bitmaps = [j \in 0..1 |-> biscuit_roaring_create]
    /\ num_records = 0
    /\ tids = [s \in {} |-> <<0, 0>>]
    /\ data_cache = [s \in {} |-> NULL_STR]
    /\ tombstones = biscuit_roaring_create
    /\ free_list = <<>>
    /\ tombstone_count = 0
    /\ insert_count = 0
    /\ delete_count = 0
    /\ tuples_removed = 0
    /\ so_results = <<>>
    /\ so_current = 0
    /\ xs_heaptid = <<0, 0>>
    /\ scans = [s \in ScanIds |-> NoScan]
    /\ pr_phase = "idle"
    /\ pr_tid = <<0, 0>>
    /\ pr_str = <<>>
    /\ pr_before = [p \in {} |-> {}]
    /\ bd_call = NoCall
    /\ scan_obs = [s \in ScanIds |-> NoScanObs]
    /\ twin = NoTwin
    /\ capacity = INITIAL_CAPACITY
    /\ alloc_len = INITIAL_CAPACITY
    /\ last_parse = NoParse
    /\ table_rows = {}
    /\ ins_pending = NoPending
    /\ fb = [b \in BitmapIds |-> fb_create]
    /\ fb_set = [b \in BitmapIds |-> {}]

\* the index biscuit_build leaves for a heap without rows, no scan open
Init ==
    /\ EmptyIndex
    /\ rel = BuiltRel(0)

LiveTids == {tids[s] : s \in LiveSlots}

\* the host inserts a row: its TID is held by no live row
Insert ==
    \E str \in Strings, tid \in TIDs \ LiveTids :
        /\ insert_count < MaxInserts
        /\ (Len(free_list) = 0 => num_records < MaxRecords)
        /\ biscuit_insert(str, tid)
        /\ UNCHANGED <<tuples_removed, scanvars, obsvars, hostvars, auxvars>>

\* VACUUM: the callback answers true for the TIDs of the rows the host deleted
BulkDelete ==
    \E dead \in SUBSET LiveTids :
        /\ biscuit_bulkdelete(dead)
        /\ UNCHANGED <<scanvars, obsvars, hostvars, auxvars>>

\* a null attribute indexed like the empty string
insert_null_as_empty(ht_ctid) == biscuit_insert(<<>>, ht_ctid)

\* biscuit_insert with isnull[0]: "return true" before anything is touched
biscuit_insert_isnull(ht_ctid) == UNCHANGED idxvars

InsertNull ==
    \E tid \in TIDs \ LiveTids :
        /\ biscuit_insert_isnull(tid)
        /\ UNCHANGED <<tuples_removed, scanvars, obsvars, hostvars, auxvars>>

Next == Insert \/ InsertNull \/ BulkDelete

Spec == Init /\ [][Next]_vars

(***************************************************************************)
(* Index build (biscuit_build; biscuit_load_index repeats the same two     *)
(* passes): the heap is the sequence of rows the table scan delivers, a    *)
(* row being [str, tid] with str = NULL_STR for a null attribute.          *)
(* data_cache keeps pstrdup(str), the untruncated string; no operation     *)
(* reads more of it than whether it is NULL.                               *)
(***************************************************************************)
\* pass 1: slot table, max_len and positional bitmaps
RECURSIVE BuildPass1(_, _, _)
BuildPass1(heap, i, st) ==
    IF i > Len(heap) THEN st
    ELSE IF heap[i].str = NULL_STR THEN BuildPass1(heap, i + 1, st)
    ELSE LET str == heap[i].str
             len == Min(Len(str), MAX_POSITIONS)
             chars == IndexChars(st.pos, st.neg, str, len, 0, st.num_records)
         IN BuildPass1(heap, i + 1,
                [pos |-> chars[1],
                 neg |-> chars[2],
                 tids |-> Append(st.tids, heap[i].tid),
                 data_cache |-> Append(st.data_cache, str),
                 max_len |-> IF len > st.max_len THEN len ELSE st.max_len,
                 num_records |-> st.num_records + 1])

\* pass 2: length bitmaps, with len the untruncated length of the row
RECURSIVE BuildPass2(_, _, _, _, _)
BuildPass2(heap, i, rec_idx, maxlength, lb) ==
    IF i > Len(heap) THEN lb
    ELSE IF heap[i].str = NULL_STR
    THEN BuildPass2(heap, i + 1, rec_idx, maxlength, lb)
    ELSE LET len == Len(heap[i].str)
             eq1 == IF len < maxlength
                    THEN [lb.eq EXCEPT ![len] =
                             biscuit_roaring_add(
                                 IF lb.eq[len] = NULL_BM
                                 THEN biscuit_roaring_create
                                 ELSE lb.eq[len], rec_idx)]
                    ELSE lb.eq
             ge1 == [j \in DOMAIN lb.ge |->
                        IF j <= len /\ j < maxlength
                        THEN biscuit_roaring_add(lb.ge[j], rec_idx)
                        ELSE lb.ge[j]]
         IN BuildPass2(heap, i + 1, rec_idx + 1, maxlength,
                       [eq |-> eq1, ge |-> ge1])

\* the BiscuitIndex biscuit_build leaves in rd_amcache
biscuit_build(heap) ==
    LET p1 == BuildPass1(heap, 1,
                  [pos |-> EmptyCharIndex, neg |-> EmptyCharIndex,
                   tids |-> <<>>, data_cache |-> <<>>,
                   max_len |-> 0, num_records |-> 0])
        maxlength == p1.max_len + 1
        p2 == BuildPass2(heap, 1, 0, maxlength,
                  [eq |-> [j \in 0..(maxlength - 1) |-> NULL_BM],
                   ge |-> [j \in 0..maxlength |-> biscuit_roaring_create]])
    IN [pos_idx |-> p1.pos, neg_idx |-> p1.neg,
        tids |-> [s \in 0..(p1.num_records - 1) |-> p1.tids[s + 1]],
        data_cache |-> [s \in 0..(p1.num_records - 1) |-> p1.data_cache[s + 1]],
        num_records |-> p1.num_records,
        max_len |-> p1.max_len, max_length |-> maxlength,
        length_bitmaps |-> p2.eq, length_ge_bitmaps |-> p2.ge]

\* heaps of up to MaxBuildRows rows; the table scan visits them in TID order
HeapValues == Strings \cup {NULL_STR}
HeapRows == [str : HeapValues, tid : TIDs]
Heaps ==
    {h \in SeqsUpTo(HeapRows, MaxBuildRows) :
        \A i \in 1..(Len(h) - 1) :
            biscuit_compare_tids(h[i].tid, h[i + 1].tid) < 0}

InitBuild ==
    \E heap \in Heaps :
        LET idx == biscuit_build(heap)
        IN /\ pos_idx = idx.pos_idx
           /\ neg_idx = idx.neg_idx
           /\ max_len = idx.max_len
           /\ max_length = idx.max_length
           /\ length_bitmaps = idx.length_bitmaps
           /\ length_ge_bitmaps = idx.length_ge_bitmaps
           /\ num_records = idx.num_records
           /\ tids = idx.tids
           /\ data_cache = idx.data_cache
           /\ tombstones = biscuit_roaring_create
           /\ free_list = <<>>
           /\ tombstone_count = 0
           /\ insert_count = 0
           /\ delete_count = 0
           /\ tuples_removed = 0
           /\ so_results = <<>>
           /\ so_current = 0
           /\ xs_heaptid = <<0, 0>>
           /\ scans = [s \in ScanIds |-> NoScan]
           /\ pr_phase = "idle"
           /\ pr_tid = <<0, 0>>
           /\ pr_str = <<>>
           /\ pr_before = [p \in {} |-> {}]
           /\ bd_call = NoCall
           /\ scan_obs = [s \in ScanIds |-> NoScanObs]
           /\ twin = NoTwin
           /\ rel = BuiltRel(Len(heap))
           /\ capacity = INITIAL_CAPACITY
           /\ alloc_len = INITIAL_CAPACITY
           /\ last_parse = NoParse
           /\ table_rows = {}
           /\ ins_pending = NoPending
           /\ fb = [b \in BitmapIds |-> fb_create]
           /\ fb_set = [b \in BitmapIds |-> {}]

BuiltInsert ==
    /\ insert_count < MaxBuildInserts
    /\ Insert

NextBuild == BuiltInsert \/ BulkDelete

SpecBuild == InitBuild /\ [][NextBuild]_vars

(***************************************************************************)
(* Insert-then-delete experiment: from any index state reached by inserts  *)
(* and bulk deletes, one more row is inserted and then removed by a        *)
(* bulk_delete whose callback accepts exactly its TID.                     *)
(***************************************************************************)
SeqToSet(seq) == {seq[i] : i \in 1..Len(seq)}

ExpInsert ==
    /\ pr_phase = "idle"
    /\ insert_count < MaxInserts - 1
    /\ Insert

ExpBulkDelete ==
    /\ pr_phase = "idle"
    /\ BulkDelete

\* the host runs a scan for every pattern and keeps the TID sets
ProbeObserve ==
    /\ pr_phase = "idle"
    /\ insert_count < MaxInserts
    /\ pr_phase' = "observed"
    /\ pr_before' = [p \in Patterns |-> SeqToSet(RescanResults(p))]
    /\ UNCHANGED <<idxvars, tuples_removed, scanvars, pr_tid, pr_str, bd_call, twin, scan_obs, hostvars, auxvars>>

ProbeInsert ==
    \E str \in Strings, tid \in TIDs \ LiveTids :
        /\ pr_phase = "observed"
        /\ (Len(free_list) = 0 => num_records < MaxRecords)
        /\ biscuit_insert(str, tid)
        /\ pr_phase' = "inserted"
        /\ pr_tid' = tid
        /\ UNCHANGED <<tuples_removed, scanvars, pr_str, pr_before, bd_call, twin, scan_obs, hostvars, auxvars>>

ProbeDelete ==
    /\ pr_phase = "inserted"
    /\ biscuit_bulkdelete({pr_tid})
    /\ pr_phase' = "deleted"
    /\ UNCHANGED <<scanvars, pr_tid, pr_str, pr_before, bd_call, twin, scan_obs, hostvars, auxvars>>

NextInsDel ==
    ExpInsert \/ ExpBulkDelete \/ ProbeObserve \/ ProbeInsert \/ ProbeDelete

SpecInsDel == Init /\ [][NextInsDel]_vars

(***************************************************************************)
(* Watched insert: one insert is singled out, and inserts and bulk deletes *)
(* go on around it until a bulk_delete removes the watched row.            *)
(***************************************************************************)
WatchInsert ==
    \E str \in Strings, tid \in TIDs \ LiveTids :
        /\ pr_phase = "idle"
        /\ insert_count < MaxInserts
        /\ (Len(free_list) = 0 => num_records < MaxRecords)
        /\ biscuit_insert(str, tid)
        /\ pr_phase' = "watched"
        /\ pr_tid' = tid
        /\ pr_str' = str
        /\ UNCHANGED <<tuples_removed, scanvars, pr_before, bd_call, twin, scan_obs, hostvars, auxvars>>

WatchedInsert ==
    /\ pr_phase = "watched"
    /\ Insert

WatchedBulkDelete ==
    \E dead \in SUBSET LiveTids :
        /\ pr_phase = "watched"
        /\ biscuit_bulkdelete(dead)
        /\ pr_phase' = IF pr_tid \in dead THEN "gone" ELSE "watched"
        /\ UNCHANGED <<scanvars, pr_tid, pr_str, pr_before, bd_call, twin, scan_obs, hostvars, auxvars>>

NextWatch ==
    ExpInsert \/ ExpBulkDelete \/ WatchInsert \/ WatchedInsert \/ WatchedBulkDelete

SpecWatch == Init /\ [][NextWatch]_vars

(***************************************************************************)
(* Scan descriptor: biscuit_rescan materialises so->results for a key,     *)
(* biscuit_gettuple hands them out one by one, while the index goes on     *)
(* being maintained.                                                       *)
(***************************************************************************)
biscuit_rescan(pattern) ==
    /\ so_results' = RescanResults(pattern)
    /\ so_current' = 0
    /\ UNCHANGED xs_heaptid

biscuit_gettuple ==
    /\ so_current < Len(so_results)
    /\ xs_heaptid' = so_results[so_current + 1]
    /\ so_current' = so_current + 1
    /\ UNCHANGED so_results

ScanInsert ==
    \E str \in ScanStrings, tid \in ScanTIDs \ LiveTids :
        /\ insert_count < MaxInserts
        /\ (Len(free_list) = 0 => num_records < MaxRecords)
        /\ biscuit_insert(str, tid)
        /\ UNCHANGED <<tuples_removed, scanvars, obsvars, hostvars, auxvars>>

Rescan ==
    \E pattern \in ScanPatterns :
        /\ biscuit_rescan(pattern)
        /\ UNCHANGED <<idxvars, tuples_removed, obsvars, scans, hostvars, auxvars>>

GetTuple ==
    /\ biscuit_gettuple
    /\ UNCHANGED <<idxvars, tuples_removed, obsvars, scans, hostvars, auxvars>>

NextScan == ScanInsert \/ BulkDelete \/ Rescan \/ GetTuple

SpecScan == Init /\ [][NextScan]_vars

(***************************************************************************)
(* The sequential-scan baseline: SQL LIKE on byte strings, % any byte      *)
(* sequence, _ exactly one byte, no escape                                 *)
(***************************************************************************)
RECURSIVE LikeMatch(_, _)
LikeMatch(str, pat) ==
    IF pat = <<>> THEN str = <<>>
    ELSE IF Head(pat) = "%"
    THEN \E k \in 0..Len(str) : LikeMatch(SubSeq(str, k + 1, Len(str)), Tail(pat))
    ELSE /\ str # <<>>
         /\ (Head(pat) = "_" \/ Head(pat) = Head(str))
         /\ LikeMatch(Tail(str), Tail(pat))

\* the TIDs a sequential scan of the live records returns for pattern
SeqScanTids(pattern) ==
    {tids[s] : s \in {x \in LiveSlots : LikeMatch(data_cache[x], pattern)}}

\* seg (literal bytes and _) lies in str at 0-based position pos
SegMatchesAt(str, seg, pos) ==
    /\ pos + Len(seg) <= Len(str)
    /\ \A i \in 1..Len(seg) : seg[i] = "_" \/ seg[i] = str[pos + i]

HasPercent(pattern) == \E i \in 1..Len(pattern) : pattern[i] = "%"
OnlyPercents(pattern) ==
    Len(pattern) >= 1 /\ \A i \in 1..Len(pattern) : pattern[i] = "%"

(***************************************************************************)
(* Claims                                                                  *)
(***************************************************************************)

\* C1: for every pattern, the set of TIDs a scan returns is the set of TIDs of
\* the live records whose stored string matches the pattern under LIKE.
C1_ScanEqualsSeqScan ==
    \A p \in Patterns : SeqToSet(RescanResults(p)) = SeqScanTids(p)

\* C2: no scan, for any pattern, returns a slot that is currently tombstoned
\* (in the tombstone set: deleted, not yet compacted or reassigned).
C2_NoTombstonedReturned ==
    \A p \in Patterns : RescanBitmap(p) \cap tombstones = {}

\* C3: a pattern of one or more % returns exactly one TID per live slot and
\* no TID of a tombstoned or freed slot.
C3_MatchAllReturnsLive ==
    \A p \in Patterns :
        OnlyPercents(p) =>
            /\ Len(RescanResults(p)) = Cardinality(LiveSlots)
            /\ RescanBitmap(p) = LiveSlots

Truncated(str) == SubSeq(str, 1, Min(Len(str), MAX_POSITIONS))

C7_SlotConservation ==
    active_records = insert_count - delete_count

\* three inserts into two slots (one reused), two deletes with a compaction
C7_Witness ==
    /\ insert_count = MaxInserts
    /\ delete_count = 2
    /\ num_records = 2
    /\ \E s \in AllRecords : data_cache[s] = NULL_STR
    /\ active_records = 1

\* C9: for a pattern without % (one segment, exact match), every returned
\* live record has exactly the pattern's length.
C9_ExactMatchLength ==
    \A p \in Patterns :
        (Len(p) >= 1 /\ ~HasPercent(p)) =>
            \A s \in RescanBitmap(p) \cap LiveSlots :
                Len(data_cache[s]) = Len(p)

\* C10: for a multi-segment pattern that does not begin with %, every
\* returned live record has the first segment at position 0.
C10_FirstSegmentAnchored ==
    \A p \in Patterns :
        LET parsed == biscuit_parse_pattern(p)
        IN (Len(parsed.parts) >= 2 /\ ~parsed.starts_percent) =>
               \A s \in RescanBitmap(p) \cap LiveSlots :
                   SegMatchesAt(data_cache[s], parsed.parts[1], 0)

\* C6: when insert reassigns a free-list slot (tombstoned, or already
\* compacted), then for every pattern a scan returns that slot if and only if
\* the new record's string matches.
C6_ReuseSeesOnlyNewRecord ==
    [][(Len(free_list) # 0 /\ insert_count' = insert_count + 1) =>
          LET rec_idx == free_list[Len(free_list)]
          IN \A p \in Patterns :
                 (rec_idx \in RescanBitmap(p)') <=> LikeMatch(data_cache'[rec_idx], p)
      ]_vars

\* C5: once the delete of a just-inserted record is acknowledged, every
\* pattern returns the TID set it returned before the insert.
C5_InsertDeleteInvisible ==
    pr_phase = "deleted" =>
        \A p \in Patterns : SeqToSet(RescanResults(p)) = pr_before[p]

\* a is not after b in (block, offset) order
TidLeq(a, b) == a[1] < b[1] \/ (a[1] = b[1] /\ a[2] <= b[2])

IsAscending(arr) == \A i \in 1..(Len(arr) - 1) : TidLeq(arr[i], arr[i + 1])

\* C8: the TID array a rescan produces is in ascending (block, offset)
\* order, and each TID gettuple emits is not below the one it emitted before
\* from the same array.
C8_ResultsAscending ==
    [][/\ IsAscending(so_results')
       /\ (so_current >= 1 /\ so_current' = so_current + 1) =>
              TidLeq(xs_heaptid, xs_heaptid')
      ]_vars

\* both TIDs of a two-row result have been emitted; the rows share a block
\* and sit in the slot table in descending offset order
C8_Witness ==
    /\ Len(so_results) = 2
    /\ so_current = 2
    /\ xs_heaptid = so_results[2]
    /\ so_results[1][1] = so_results[2][1]
    /\ so_results[1][2] < so_results[2][2]
    /\ \E s1, s2 \in LiveSlots :
           s1 < s2 /\ tids[s1] = so_results[2] /\ tids[s2] = so_results[1]

\* literal segments and the patterns %s1%...%sk% made of them
Segments == SeqsUpTo(Chars, MaxSegLen) \ {<<>>}
SegLists == SeqsUpTo(Segments, MaxSegs) \ {<<>>}

RECURSIVE PercentJoin(_)
PercentJoin(segs) ==
    IF segs = <<>> THEN <<"%">>
    ELSE <<"%">> \o Head(segs) \o PercentJoin(Tail(segs))

\* str contains the segments as substrings, in order, without overlap
RECURSIVE ContainsInOrder(_, _)
ContainsInOrder(str, segs) ==
    IF segs = <<>> THEN TRUE
    ELSE \E k \in 0..(Len(str) - Len(Head(segs))) :
             /\ SubSeq(str, k + 1, k + Len(Head(segs))) = Head(segs)
             /\ ContainsInOrder(SubSeq(str, k + Len(Head(segs)) + 1, Len(str)),
                                Tail(segs))

\* C11: for a pattern %s1%...%sk% of literal segments, a scan returns exactly
\* the live records that contain s1, ..., sk in that order without overlap.
C11_OrderedSubstrings ==
    \A segs \in SegLists :
        RescanBitmap(PercentJoin(segs)) =
            {s \in LiveSlots : ContainsInOrder(data_cache[s], segs)}

\* C12: the empty pattern returns exactly the live records whose string is
\* empty (nothing when no empty string is indexed), never all records.
C12_EmptyPattern ==
    RescanBitmap(<<>>) = {s \in LiveSlots : data_cache[s] = <<>>}

\* C13: a live record whose input string is longer than MAX_POSITIONS is
\* returned, for every pattern, if and only if its first MAX_POSITIONS bytes
\* match, also when it entered the index through build.
C13_TruncatedPrefixDecides ==
    \A s \in LiveSlots :
        Len(data_cache[s]) > MAX_POSITIONS =>
            \A p \in Patterns :
                (s \in RescanBitmap(p)) <=> LikeMatch(Truncated(data_cache[s]), p)

\* the slots a bulk_delete step compacted away: the tombstone set at the
\* moment its cleanup block ran (empty when the block did not run)
Compacted ==
    {s \in AllRecords : data_cache[s] # NULL_STR /\ data_cache'[s] = NULL_STR}

\* C14: for every pattern, the TID set a scan returns right after a
\* compaction is the set it returned right before it, that is after the
\* delete loop of the same bulk_delete had marked its slots.
C14_CompactionInvisible ==
    [][(insert_count' = insert_count /\ Compacted # {}) =>
          \A p \in Patterns :
              SeqToSet(RescanResults(p)') =
                  {tids[s] : s \in biscuit_query_pattern(p) \ Compacted}
      ]_vars

\* C15: from any reachable state, the cleanup block run twice in a row
\* leaves every bitmap, the tombstone set, tombstone_count, the cached
\* strings, the TID table and the free list as running it once does.
C15_CompactionIdempotent ==
    LET once == CleanupBlock(CleanupFields(tombstones, tombstone_count, free_list))
    IN CleanupBlock(once) = once

\* a state with a tombstoned slot, where one run of the block changes the
\* bitmaps, the cached strings, the tombstone set and the counter
C15_Witness ==
    LET now == CleanupFields(tombstones, tombstone_count, free_list)
        once == CleanupBlock(now)
    IN /\ tombstones # {}
       /\ tombstone_count > 0
       /\ once.pos_idx # now.pos_idx
       /\ once.length_bitmaps # now.length_bitmaps
       /\ once.data_cache # now.data_cache
       /\ once.tombstone_count # now.tombstone_count

DelInsert ==
    \E str \in ScanStrings, tid \in ScanTIDs \ LiveTids :
        /\ insert_count < MaxInserts
        /\ (Len(free_list) = 0 => num_records < MaxRecords)
        /\ biscuit_insert(str, tid)
        /\ UNCHANGED <<tuples_removed, scanvars, obsvars, hostvars, auxvars>>

\* the callback answers true for the TIDs in dead, whatever slot holds them
ObservedBulkDelete ==
    \E dead \in SUBSET ScanTIDs :
        LET st == DeleteLoopStart(dead)
        IN /\ biscuit_bulkdelete(dead)
           /\ bd_call' = [seen |-> TRUE,
                     dead |-> dead,
                     called |-> st.called,
                     live |-> {s \in AllRecords :
                                  /\ s \notin tombstones
                                  /\ s \notin SeqToSet(free_list)},
                     yes |-> {s \in AllRecords : tids[s] \in dead},
                     tombstones |-> tombstones,
                     free_list |-> free_list,
                     loop_tombstones |-> st.tombstones,
                     loop_free_list |-> st.free_list,
                     removed |-> tuples_removed',
                     again |-> (DeleteLoopStart(dead).tuples_removed)']
           /\ UNCHANGED <<scanvars, pr_phase, pr_tid, pr_str, pr_before, scan_obs, twin, hostvars, auxvars>>

NextDel == DelInsert \/ ObservedBulkDelete
SpecDel == Init /\ [][NextDel]_vars

\* C17: in one bulk_delete call the callback is invoked exactly once for each
\* live slot and for no tombstoned or freed slot; the slots it answers true
\* for are tombstoned and appended to the free list once each, tuples_removed
\* is their number, and the same call repeated removes nothing
C17_BulkDeleteOncePerLiveSlot ==
    bd_call.seen =>
        LET hit == SeqToSet(bd_call.called) \cap bd_call.yes
            n == Len(bd_call.free_list)
            pushed == SubSeq(bd_call.loop_free_list, n + 1, Len(bd_call.loop_free_list))
        IN /\ SeqToSet(bd_call.called) = bd_call.live
           /\ Len(bd_call.called) = Cardinality(bd_call.live)
           /\ bd_call.loop_tombstones = bd_call.tombstones \cup hit
           /\ hit \cap bd_call.tombstones = {}
           /\ SubSeq(bd_call.loop_free_list, 1, n) = bd_call.free_list
           /\ SeqToSet(pushed) = hit
           /\ Len(pushed) = Cardinality(hit)
           /\ bd_call.removed = Cardinality(hit)
           /\ bd_call.again = 0

\* a call that found a live slot, a tombstoned slot still holding its string
\* and a non-empty free list, and whose callback answered true for a live slot
\* and for the TID of the tombstoned one
C17_Witness ==
    /\ bd_call.seen
    /\ bd_call.live # {}
    /\ bd_call.tombstones # {}
    /\ bd_call.yes \cap bd_call.tombstones # {}
    /\ bd_call.yes \cap bd_call.live # {}
    /\ Len(bd_call.free_list) > 0
    /\ bd_call.removed > 0

(***************************************************************************)
(* Slots filled, vacuumed and filled again: short strings, enough inserts  *)
(* to reuse every slot a compaction left on the free list                  *)
(***************************************************************************)
RefillInsert ==
    \E str \in ScanStrings, tid \in TIDs \ LiveTids :
        /\ insert_count < MaxRefillInserts
        /\ (Len(free_list) = 0 => num_records < MaxRecords)
        /\ biscuit_insert(str, tid)
        /\ UNCHANGED <<tuples_removed, scanvars, obsvars, hostvars, auxvars>>

NextRefill == RefillInsert \/ ObservedBulkDelete
SpecRefill == Init /\ [][NextRefill]_vars

\* C18: whenever a bulk_delete call has returned, fewer than
\* TOMBSTONE_CLEANUP_THRESHOLD slots are in the tombstone set
C18_TombstonesBelowThreshold ==
    [][ObservedBulkDelete =>
           Cardinality(tombstones') < TOMBSTONE_CLEANUP_THRESHOLD]_vars

(***************************************************************************)
(* Several scan descriptors open at once on an index that goes on being    *)
(* maintained: each descriptor has its own BiscuitScanOpaque               *)
(***************************************************************************)
\* biscuit_beginscan: a fresh opaque, nothing materialised
biscuit_beginscan == [open |-> TRUE, results |-> <<>>, current |-> 0]

\* a rescan that leaves the cursor where the previous scan stopped
rescan_keep_cursor(so, key) ==
    [so EXCEPT !.results = IF key = NULL_STR THEN <<>> ELSE RescanResults(key)]

\* biscuit_rescan on one descriptor; key is the pattern or the null key
biscuit_rescan_opaque(so, key) ==
    [so EXCEPT !.results = IF key = NULL_STR THEN <<>> ELSE RescanResults(key),
               !.current = 0]

\* the first position from cur on whose TID is still held by a live slot
RECURSIVE SkipDead(_, _)
SkipDead(results, cur) ==
    IF cur >= Len(results) THEN cur
    ELSE IF results[cur + 1] \in LiveTids THEN cur
    ELSE SkipDead(results, cur + 1)

\* a gettuple that looks at the index again and passes over results whose
\* row has been deleted since the rescan
gettuple_skip_dead(so) ==
    LET c == SkipDead(so.results, so.current)
    IN IF c >= Len(so.results)
       THEN [ok |-> FALSE, xs_heaptid |-> NoTuple,
             so |-> [so EXCEPT !.current = c]]
       ELSE [ok |-> TRUE, xs_heaptid |-> so.results[c + 1],
             so |-> [so EXCEPT !.current = c + 1]]

\* biscuit_gettuple on one descriptor: its return value, the TID it leaves in
\* scan->xs_heaptid when it returns true, and the opaque after
biscuit_gettuple_opaque(so) ==
    IF so.current >= Len(so.results)
    THEN [ok |-> FALSE, xs_heaptid |-> NoTuple, so |-> so]
    ELSE [ok |-> TRUE, xs_heaptid |-> so.results[so.current + 1],
          so |-> [so EXCEPT !.current = so.current + 1]]

\* biscuit_getbitmap: the count it returns, the TIDs it adds to the TIDBitmap
\* and the opaque after
biscuit_getbitmap(so) ==
    IF Len(so.results) > 0
    THEN [ntids |-> Len(so.results), tbm |-> SeqToSet(so.results), so |-> so]
    ELSE [ntids |-> 0, tbm |-> {}, so |-> so]

\* biscuit_endscan: results and opaque freed
biscuit_endscan == NoScan

\* every scan that has materialised results learns the index has changed
MarkMutated ==
    [s \in ScanIds |->
        IF scan_obs[s].rescanned /\ scan_obs[s].mutated_at = -1
        THEN [scan_obs[s] EXCEPT !.mutated_at = Len(scan_obs[s].returned)]
        ELSE scan_obs[s]]

OpenInsert ==
    \E str \in ScanStrings, tid \in TIDs \ LiveTids :
        /\ insert_count < MaxOpenInserts
        /\ (Len(free_list) = 0 => num_records < MaxRecords)
        /\ biscuit_insert(str, tid)
        /\ scan_obs' = MarkMutated
        /\ UNCHANGED <<tuples_removed, scanvars, pr_phase, pr_tid, pr_str, pr_before, bd_call, twin, hostvars, auxvars>>

OpenBulkDelete ==
    \E dead \in SUBSET LiveTids :
        /\ biscuit_bulkdelete(dead)
        /\ scan_obs' = IF dead # {} THEN MarkMutated ELSE scan_obs
        /\ UNCHANGED <<scanvars, pr_phase, pr_tid, pr_str, pr_before, bd_call, twin, hostvars, auxvars>>

BeginScan ==
    \E s \in ScanIds :
        /\ ~scans[s].open
        /\ scans' = [scans EXCEPT ![s] = biscuit_beginscan]
        /\ scan_obs' = [scan_obs EXCEPT ![s] = NoScanObs]
        /\ UNCHANGED <<idxvars, tuples_removed, so_results, so_current, xs_heaptid, pr_phase, pr_tid, pr_str, pr_before, bd_call, twin, hostvars, auxvars>>

RescanOpen ==
    \E s \in ScanIds, key \in ScanPatterns \cup {NULL_STR} :
        LET so == biscuit_rescan_opaque(scans[s], key)
        IN /\ scans[s].open
           /\ scans' = [scans EXCEPT ![s] = so]
           /\ scan_obs' = [scan_obs EXCEPT ![s] =
                  [rescanned |-> TRUE, r |-> so.results, returned |-> <<>>,
                   mutated_at |-> -1]]
           /\ UNCHANGED <<idxvars, tuples_removed, so_results, so_current, xs_heaptid, pr_phase, pr_tid, pr_str, pr_before, bd_call, twin, hostvars, auxvars>>

GetNextTid ==
    \E s \in ScanIds :
        LET ret == biscuit_gettuple_opaque(scans[s])
            o == scan_obs[s]
        IN /\ scans[s].open
           /\ Len(o.returned) < Len(o.r) + MaxExtraCalls
           /\ scans' = [scans EXCEPT ![s] = ret.so]
           /\ scan_obs' = [scan_obs EXCEPT ![s].returned =
                  Append(o.returned,
                         IF ret.ok THEN ret.xs_heaptid ELSE NoTuple)]
           /\ UNCHANGED <<idxvars, tuples_removed, so_results, so_current, xs_heaptid, pr_phase, pr_tid, pr_str, pr_before, bd_call, twin, hostvars, auxvars>>

GetAllTids ==
    \E s \in ScanIds :
        /\ scans[s].open
        /\ scans' = [scans EXCEPT ![s] = biscuit_getbitmap(scans[s]).so]
        /\ UNCHANGED <<idxvars, tuples_removed, so_results, so_current, xs_heaptid, obsvars, hostvars, auxvars>>

EndScan ==
    \E s \in ScanIds :
        /\ scans[s].open
        /\ scans' = [scans EXCEPT ![s] = biscuit_endscan]
        /\ scan_obs' = [scan_obs EXCEPT ![s] = NoScanObs]
        /\ UNCHANGED <<idxvars, tuples_removed, so_results, so_current, xs_heaptid, pr_phase, pr_tid, pr_str, pr_before, bd_call, twin, hostvars, auxvars>>

NextOpen ==
    OpenInsert \/ OpenBulkDelete \/ BeginScan \/ RescanOpen \/ GetNextTid
        \/ GetAllTids \/ EndScan
SpecOpen == Init /\ [][NextOpen]_vars

\* C19: once a rescan has materialised a scan's results, an insert, a
\* bulk_delete or a compaction of the index changes nothing of what the scan
\* goes on to return: gettuple hands out the materialised TIDs in order and
\* getbitmap reports the same TIDs
C19_InFlightScanUnaffected ==
    \A s \in ScanIds :
        LET o == scan_obs[s]
            n == Len(o.r)
            k == Len(o.returned)
        IN (scans[s].open /\ o.rescanned /\ o.mutated_at >= 0) =>
               /\ \A j \in 1..Min(k, n) : o.returned[j] = o.r[j]
               /\ k < n =>
                      LET ret == biscuit_gettuple_opaque(scans[s])
                      IN ret.ok /\ ret.xs_heaptid = o.r[k + 1]
               /\ biscuit_getbitmap(scans[s]).tbm = SeqToSet(o.r)

\* a scan materialised two results; before it returned any, both rows were
\* deleted and the index compacted; the scan has since returned both TIDs
C19_Witness ==
    \E s \in ScanIds :
        /\ scans[s].open
        /\ Len(scan_obs[s].r) = 2
        /\ scan_obs[s].mutated_at = 0
        /\ scan_obs[s].returned = scan_obs[s].r
        /\ LiveSlots = {}
        /\ tombstones = {}
        /\ Len(free_list) = 2

\* C20: the k-th gettuple after a rescan returns the k-th materialised TID
\* and every call past the last returns none, also before any rescan;
\* getbitmap reports exactly the materialised TIDs and leaves the cursor;
\* a rescan starts over at the first result; every descriptor has its own
\* results and cursor whatever the other descriptors do
C20_ScanCursorProtocol ==
    \A s \in ScanIds :
        LET o == scan_obs[s]
            n == Len(o.r)
            k == Len(o.returned)
        IN /\ \A j \in 1..k :
                  o.returned[j] = IF j <= n THEN o.r[j] ELSE NoTuple
           /\ ~o.rescanned => n = 0
           /\ scans[s].open =>
                  LET g == biscuit_getbitmap(scans[s])
                  IN /\ scans[s].current = Min(k, n)
                     /\ g.ntids = n
                     /\ g.tbm = SeqToSet(o.r)
                     /\ g.so = scans[s]

\* two descriptors open: one has handed out both of its results and answered
\* none to one more call, the other was rescanned for another key, holds one
\* result and has handed out none yet
C20_Witness ==
    \E s, t \in ScanIds :
        /\ s # t
        /\ scans[s].open /\ scans[t].open
        /\ Len(scan_obs[s].r) = 2
        /\ scan_obs[s].returned = scan_obs[s].r \o <<NoTuple>>
        /\ scan_obs[t].rescanned
        /\ Len(scan_obs[t].r) = 1
        /\ scan_obs[t].returned = <<>>
        /\ scans[t].current = 0

(***************************************************************************)
(* Operator strategies of biscuit_text_ops: 1 is ~~ (LIKE), 2 is ~~* (ILIKE) *)
(***************************************************************************)
\* so->results after biscuit_rescan with a key of the given sk_strategy: the
\* strategy is logged and otherwise not looked at
biscuit_rescan_strategy(sk_strategy, pattern) == RescanResults(pattern)

\* lower-case form of a byte; wildcards have none
pg_tolower(ch) == IF ch = "A" THEN "a" ELSE ch

RECURSIVE FoldCase(_)
FoldCase(str) ==
    IF str = <<>> THEN <<>> ELSE <<pg_tolower(Head(str))>> \o FoldCase(Tail(str))

\* SQL ILIKE: LIKE on the lower-cased string and pattern
ILikeMatch(str, pat) == LikeMatch(FoldCase(str), FoldCase(pat))

\* C21: a scan through strategy 2 (ILIKE) returns every live record matching
\* the pattern without regard to case, a scan through strategy 1 (LIKE) the
\* live records matching byte for byte
C21_ILikeIgnoresCase ==
    \A p \in Patterns :
        /\ SeqToSet(biscuit_rescan_strategy(2, p)) =
               {tids[s] : s \in {x \in LiveSlots : ILikeMatch(data_cache[x], p)}}
        /\ SeqToSet(biscuit_rescan_strategy(1, p)) = SeqScanTids(p)

(***************************************************************************)
(* CREATE INDEX: biscuit_build called for a relation without an index      *)
(***************************************************************************)
\* the relation before any build
NoRel ==
    [allocated |-> FALSE, rd_amcache |-> FALSE, error |-> "", scanned |-> 0,
     natts |-> 1]

InitCreate ==
    /\ EmptyIndex
    /\ rel = NoRel

\* a build that indexes the first column whatever the number of columns
build_first_column(natts, heap) ==
    LET idx == biscuit_build(heap)
    IN /\ pos_idx' = idx.pos_idx
       /\ neg_idx' = idx.neg_idx
       /\ max_len' = idx.max_len
       /\ max_length' = idx.max_length
       /\ length_bitmaps' = idx.length_bitmaps
       /\ length_ge_bitmaps' = idx.length_ge_bitmaps
       /\ num_records' = idx.num_records
       /\ tids' = idx.tids
       /\ data_cache' = idx.data_cache
       /\ rel' = [BuiltRel(Len(heap)) EXCEPT !.natts = natts]
       /\ UNCHANGED <<tombstones, free_list, tombstone_count, insert_count, delete_count, capacity, alloc_len>>

\* biscuit_build(heap, index, indexInfo) with natts = ii_NumIndexAttrs
biscuit_ambuild(natts, heap) ==
    IF natts # 1
    THEN /\ rel' = [rel EXCEPT !.error = "biscuit index supports only one column",
                               !.natts = natts]
         /\ UNCHANGED <<idxvars, capacity, alloc_len>>
    ELSE build_first_column(natts, heap)

CreateIndex ==
    \E natts \in 1..MaxAtts, heap \in Heaps :
        /\ ~rel.rd_amcache
        /\ biscuit_ambuild(natts, heap)
        /\ UNCHANGED <<tuples_removed, scanvars, obsvars, auxvars>>

CreatedInsert ==
    /\ rel.rd_amcache
    /\ BuiltInsert

CreatedBulkDelete ==
    /\ rel.rd_amcache
    /\ BulkDelete

NextCreate == CreateIndex \/ CreatedInsert \/ CreatedBulkDelete
SpecCreate == InitCreate /\ [][NextCreate]_vars

\* C22: a build asked for a number of index columns other than one raises
\* 'supports only one column' and creates nothing: no BiscuitIndex is
\* allocated or attached to the relation, no heap row is scanned
C22_MultiColumnBuildRefused ==
    [][\A natts \in 1..MaxAtts :
          (~rel.rd_amcache /\ natts # 1 /\ rel'.natts = natts) =>
              /\ rel'.error = "biscuit index supports only one column"
              /\ ~rel'.allocated
              /\ ~rel'.rd_amcache
              /\ rel'.scanned = 0
              /\ UNCHANGED idxvars
              /\ num_records' = 0]_vars

\* a build over two columns has been refused
C22_Witness ==
    /\ rel.natts = 2
    /\ rel.error = "biscuit index supports only one column"
    /\ ~rel.rd_amcache

(***************************************************************************)
(* Growth of the slot table: inserts that find num_records >= capacity     *)
(***************************************************************************)
GrowTIDs == (0..MaxGrowBlock) \X {1}

\* repalloc(ptr, n * sizeof(elem)) returns for requests the allocator grants
\* and raises an error above its limit
repalloc_ok(n) == n <= MaxAllocSlots

\* biscuit_insert including the growth of idx->tids and idx->data_cache
biscuit_insert_grow(str, ht_ctid) ==
    IF Len(free_list) > 0
    THEN /\ biscuit_insert(str, ht_ctid)
         /\ UNCHANGED hostvars
    ELSE IF num_records >= capacity
    THEN IF repalloc_ok(capacity * 2)
         THEN /\ capacity' = capacity * 2
              /\ alloc_len' = capacity * 2
              /\ biscuit_insert(str, ht_ctid)
              /\ UNCHANGED rel
         ELSE \* capacity is doubled before repalloc raises the error
              /\ capacity' = capacity * 2
              /\ rel' = [rel EXCEPT !.error = "invalid memory alloc request size"]
              /\ UNCHANGED <<idxvars, alloc_len>>
    ELSE IF num_records < alloc_len
    THEN /\ biscuit_insert(str, ht_ctid)
         /\ UNCHANGED hostvars
    ELSE \* tids[num_records] lies past the allocated array: the write lands
         \* in foreign memory and goes unnoticed, or the backend crashes
         \/ /\ biscuit_insert(str, ht_ctid)
            /\ UNCHANGED hostvars
         \/ /\ rel' = [rel EXCEPT !.error = "server process terminated",
                                  !.rd_amcache = FALSE]
            /\ UNCHANGED <<idxvars, capacity, alloc_len>>

GrowInsert ==
    \E tid \in GrowTIDs \ LiveTids :
        /\ rel.rd_amcache
        /\ insert_count < MaxGrowInserts
        /\ biscuit_insert_grow(<<>>, tid)
        /\ UNCHANGED <<tuples_removed, scanvars, obsvars, auxvars>>

\* VACUUM after at most one row was deleted
GrowBulkDelete ==
    \E dead \in {d \in SUBSET LiveTids : Cardinality(d) <= 1} :
        /\ rel.rd_amcache
        /\ biscuit_bulkdelete(dead)
        /\ UNCHANGED <<scanvars, obsvars, hostvars, auxvars>>

NextGrow == GrowInsert \/ GrowBulkDelete
SpecGrow == Init /\ [][NextGrow]_vars

\* C23: an insert that would take the slot count past what can be
\* represented is aborted with an error naming capacity exhaustion and leaves
\* the index as it was; the records stay inside the slot table
C23_CapacityExhaustionAborts ==
    [][/\ rel'.error # rel.error =>
              /\ rel'.error = "capacity exhausted"
              /\ UNCHANGED <<idxvars, capacity, alloc_len>>
       /\ capacity' = alloc_len'
       /\ num_records' <= alloc_len']_vars

\* C24: after every operation tombstone_count is the number of slots in the
\* tombstone set and is not negative, so that the scan's test
\* tombstone_count > 0 skips the subtraction only when the set is empty
C24_TombstoneCountExact ==
    /\ tombstone_count = Cardinality(tombstones)
    /\ tombstone_count >= 0
    /\ (tombstone_count > 0 <=> tombstones # {})

\* C25: after every operation the free list holds every slot that is not
\* live (tombstoned or compacted) exactly once and no live slot; an insert
\* that finds the free list non-empty takes the slot pushed last; num_records
\* grows only when every allocated slot is live
C25_FreeListExact ==
    [][/\ SeqToSet(free_list') = AllRecords' \ LiveSlots'
       /\ Len(free_list') = Cardinality(SeqToSet(free_list'))
       /\ (insert_count' = insert_count + 1 /\ Len(free_list) > 0) =>
              /\ free_list' = SubSeq(free_list, 1, Len(free_list) - 1)
              /\ free_list[Len(free_list)] \in LiveSlots'
              /\ num_records' = num_records
       /\ num_records' > num_records => LiveSlots = AllRecords]_vars

\* two slots were deleted and compacted; the third insert took slot 1, the
\* one pushed last, and the compacted slot 0 is still on the free list
C25_Witness ==
    /\ insert_count = MaxInserts
    /\ num_records = 2
    /\ Len(free_list) = 1
    /\ LiveSlots = {1}
    /\ data_cache[0] = NULL_STR

\* segments with at least one _ wildcard
WildSegments ==
    {seg \in SeqsUpTo(Chars \cup {"_"}, MaxSegLen) :
        \E i \in 1..Len(seg) : seg[i] = "_"}

\* seg, wildcards included, lies inside str at some position
LiesInside(str, seg) == \E pos \in 0..Len(str) : SegMatchesAt(str, seg, pos)

\* C26: a record is returned for %seg%, or for a pattern with seg as a
\* segment other than the last, only if seg with its _ wildcards lies wholly
\* inside the record, whatever the lengths of the other records
C26_WildcardSegmentInside ==
    \A seg \in WildSegments :
        /\ \A s \in RescanBitmap(<<"%">> \o seg \o <<"%">>) \cap LiveSlots :
               LiesInside(data_cache[s], seg)
        /\ \A last \in Segments, pre \in {<<>>, <<"%">>}, post \in {<<>>, <<"%">>} :
               \A s \in RescanBitmap(pre \o seg \o <<"%">> \o last \o post)
                            \cap LiveSlots :
                   LiesInside(data_cache[s], seg)

\* str holds first at some position and last in its final bytes, first
\* ending before last begins
EndsWithAfter(str, first, last) ==
    \E k \in 0..Len(str) :
        /\ SegMatchesAt(str, first, k)
        /\ k + Len(first) <= Len(str) - Len(last)
        /\ SegMatchesAt(str, last, Len(str) - Len(last))

\* C27: for a pattern of two segments that does not end in %, a record is
\* returned only if the last segment occupies its final bytes and the segment
\* before it was matched at a position that ends before those bytes, also
\* when the record is shorter than the longest record of the index
C27_EndSegmentNoOverlap ==
    \A first \in Segments, last \in Segments, pre \in {<<>>, <<"%">>} :
        \A s \in RescanBitmap(pre \o first \o <<"%">> \o last) \cap LiveSlots :
            EndsWithAfter(data_cache[s], first, last)

(***************************************************************************)
(* Rows inserted one at a time into an empty index, which is then rebuilt  *)
(* from the heap by the two passes of biscuit_load_index                   *)
(***************************************************************************)
\* the slots of a bitmap that may be missing
Members(bm) == IF bm = NULL_BM THEN {} ELSE bm

\* memberships of the index in the state, per (byte, position) and per length
ForwardMembers ==
    [ch \in Chars |-> [p \in 0..(MAX_POSITIONS - 1) |->
        Members(biscuit_get_pos_bitmap(pos_idx, ch, p))]]
ReverseMembers ==
    [ch \in Chars |-> [p \in 1..MAX_POSITIONS |->
        Members(biscuit_get_neg_bitmap(neg_idx, ch, 0 - p))]]
LeqMembers ==
    [l \in 0..MaxInputLen |->
        IF l < max_length THEN Members(length_bitmaps[l]) ELSE {}]
LgeMembers ==
    [k \in 0..MaxInputLen |->
        IF k <= max_length THEN Members(length_ge_bitmaps[k]) ELSE {}]

\* the heap grows at its end: a new row's TID follows every earlier one
TwinInsert ==
    \E str \in HeapValues, tid \in TIDs :
        /\ twin.phase = "inserting"
        /\ Len(twin.heap) < MaxBuildRows
        /\ \A i \in 1..Len(twin.heap) :
               biscuit_compare_tids(twin.heap[i].tid, tid) < 0
        /\ IF str = NULL_STR
           THEN biscuit_insert_isnull(tid)
           ELSE biscuit_insert(str, tid)
        /\ twin' = [twin EXCEPT !.heap = Append(twin.heap, [str |-> str, tid |-> tid])]
        /\ UNCHANGED <<tuples_removed, scanvars, pr_phase, pr_tid, pr_str, pr_before, bd_call, scan_obs, hostvars, auxvars>>

\* biscuit_load_index: the cached index is gone and is rebuilt from the heap
biscuit_load_index(heap) ==
    LET idx == biscuit_build(heap)
    IN /\ pos_idx' = idx.pos_idx
       /\ neg_idx' = idx.neg_idx
       /\ max_len' = idx.max_len
       /\ max_length' = idx.max_length
       /\ length_bitmaps' = idx.length_bitmaps
       /\ length_ge_bitmaps' = idx.length_ge_bitmaps
       /\ num_records' = idx.num_records
       /\ tids' = idx.tids
       /\ data_cache' = idx.data_cache
       /\ tombstones' = biscuit_roaring_create
       /\ free_list' = <<>>
       /\ tombstone_count' = 0
       /\ insert_count' = 0
       /\ delete_count' = 0

Reload ==
    /\ twin.phase = "inserting"
    /\ biscuit_load_index(twin.heap)
    /\ twin' = [phase |-> "reloaded",
                heap |-> twin.heap,
                answers |-> [p \in Patterns |-> SeqToSet(RescanResults(p))],
                forward |-> ForwardMembers,
                reverse |-> ReverseMembers,
                l_eq |-> LeqMembers,
                l_ge |-> LgeMembers]
    /\ UNCHANGED <<tuples_removed, scanvars, pr_phase, pr_tid, pr_str, pr_before, bd_call, scan_obs, hostvars, auxvars>>

NextReload == TwinInsert \/ Reload
SpecReload == Init /\ [][NextReload]_vars

\* C28: the index the two passes produce from a list of rows gives every
\* slot the forward, reverse, L_eq and L_ge memberships, and every pattern
\* the TIDs, of the index the same rows produce when inserted one at a time
C28_BuildEqualsInserts ==
    twin.phase = "reloaded" =>
        /\ ForwardMembers = twin.forward
        /\ ReverseMembers = twin.reverse
        /\ LeqMembers = twin.l_eq
        /\ LgeMembers = twin.l_ge
        /\ \A p \in Patterns : SeqToSet(RescanResults(p)) = twin.answers[p]

\* the entries of one byte are in strictly ascending order of position
SortedByPos(entries) ==
    \A i \in 1..(Len(entries) - 1) : entries[i].pos < entries[i + 1].pos

\* C29: every live slot s with a string of truncated length L is, for each
\* position p < L, in the forward bitmap of (byte at p, p) and in the reverse
\* bitmap of (byte at p, p - L), and every per-byte entry list is sorted by
\* position
C29_PositionalMembership ==
    /\ \A s \in LiveSlots :
           LET str == Truncated(data_cache[s])
               L == Len(str)
           IN \A p \in 0..(L - 1) :
                  /\ s \in Members(biscuit_get_pos_bitmap(pos_idx, str[p + 1], p))
                  /\ s \in Members(biscuit_get_neg_bitmap(neg_idx, str[p + 1], p - L))
    /\ \A ch \in Chars : SortedByPos(pos_idx[ch]) /\ SortedByPos(neg_idx[ch])

\* a slot compacted away and taken again holds a string of MAX_POSITIONS
\* bytes next to a shorter one, and a byte has entries at several positions
C29_Witness ==
    /\ insert_count = MaxInserts
    /\ delete_count >= TOMBSTONE_CLEANUP_THRESHOLD
    /\ \E s \in LiveSlots : Len(data_cache[s]) = MAX_POSITIONS
    /\ \E ch \in Chars : Len(pos_idx[ch]) >= 2 /\ Len(neg_idx[ch]) >= 2

\* C30: a slot is in L_eq[l] exactly when it is live and its (truncated)
\* string has length l, and in L_ge[k] exactly when it is live and its
\* (truncated) string has length at least k
C30_LengthMembership ==
    \A s \in AllRecords :
        LET L == Len(Truncated(data_cache[s]))
        IN /\ \A l \in 0..MaxInputLen :
                  s \in LeqMembers[l] <=> (s \in LiveSlots /\ L = l)
           /\ \A k \in 0..MaxInputLen :
                  s \in LgeMembers[k] <=> (s \in LiveSlots /\ L >= k)

\* C31: after every operation no slot that holds a record (cached string
\* present, not on the free list) is in the tombstone set; the slot an
\* insert writes is out of the set when the insert returns and an insert
\* adds nothing to the set; only a bulk_delete that removed a tuple adds
\* slots to the set
C31_NoLiveSlotTombstoned ==
    [][/\ \A s \in AllRecords' :
              (data_cache'[s] # NULL_STR /\ s \notin SeqToSet(free_list'))
                  => s \notin tombstones'
       /\ insert_count' = insert_count + 1 =>
              LET rec_idx == IF Len(free_list) > 0
                             THEN free_list[Len(free_list)] ELSE num_records
              IN /\ rec_idx \notin tombstones'
                 /\ data_cache'[rec_idx] # NULL_STR
                 /\ tombstones' \subseteq tombstones
       /\ tombstones' \ tombstones # {} => delete_count' > delete_count]_vars

\* two inserts, one tombstoned below the cleanup threshold, then a third
\* insert that took the tombstoned slot: both slots hold records and the
\* set is empty
C31_Witness ==
    /\ insert_count = MaxInserts
    /\ delete_count = 1
    /\ num_records = 2
    /\ LiveSlots = {0, 1}
    /\ tombstones = {}

\* slot s is in no forward, reverse, L_eq or L_ge bitmap
InNoBitmap(s) ==
    /\ \A ch \in Chars : \A p \in 0..(MAX_POSITIONS - 1) :
           s \notin ForwardMembers[ch][p]
    /\ \A ch \in Chars : \A p \in 1..MAX_POSITIONS :
           s \notin ReverseMembers[ch][p]
    /\ \A l \in 0..MaxInputLen : s \notin LeqMembers[l] /\ s \notin LgeMembers[l]

\* Free: compacted, in no bitmap, cached string released
IsFree(s) == s \notin tombstones /\ data_cache[s] = NULL_STR /\ InNoBitmap(s)

\* C32 as stated: no slot of the free list is live or tombstoned, and a slot
\* is on the free list exactly when it is Free
C32_AsStated ==
    /\ SeqToSet(free_list) \cap (LiveSlots \cup tombstones) = {}
    /\ \A s \in AllRecords : s \in SeqToSet(free_list) <=> IsFree(s)

\* C32: no slot of the free list is live; a slot is on the free list exactly
\* when it is tombstoned (its cleanup pending) or its cached string is
\* released; a slot of the free list that is not tombstoned is Free; every
\* entry of the free list is an allocated slot number
C32_FreeListNotLive ==
    /\ SeqToSet(free_list) \cap LiveSlots = {}
    /\ SeqToSet(free_list) \subseteq AllRecords
    /\ \A s \in AllRecords :
           /\ s \in SeqToSet(free_list) <=>
                  (s \in tombstones \/ data_cache[s] = NULL_STR)
           /\ (s \in SeqToSet(free_list) /\ s \notin tombstones) => IsFree(s)

\* the free list holds a compacted slot and a slot tombstoned after the
\* compaction, whose string is still cached and which is still in bitmaps
C32_Witness ==
    /\ \E s \in SeqToSet(free_list) : IsFree(s)
    /\ \E s \in SeqToSet(free_list) :
           s \in tombstones /\ data_cache[s] # NULL_STR /\ ~InNoBitmap(s)

(***************************************************************************)
(* Three slots, so that a compaction that frees two of them leaves a live  *)
(* one behind                                                              *)
(***************************************************************************)
CompactStrings == SeqsUpTo(Chars, MaxCompactLen)

CompactInsert ==
    \E str \in CompactStrings, tid \in ScanTIDs \ LiveTids :
        /\ insert_count < MaxCompactInserts
        /\ (Len(free_list) = 0 => num_records < MaxCompactRecords)
        /\ biscuit_insert_grow(str, tid)
        /\ UNCHANGED <<tuples_removed, scanvars, obsvars, auxvars>>

NextCompact == CompactInsert \/ BulkDelete
SpecCompact == Init /\ [][NextCompact]_vars

\* the step is biscuit_bulkdelete with a callback answering true on dead, and
\* its slot loop left tombstone_count at or above the cleanup threshold
CompactionStep(dead) ==
    LET st == DeleteLoopStart(dead)
    IN /\ insert_count' = insert_count
       /\ free_list' = st.free_list
       /\ delete_count' = st.delete_count
       /\ tuples_removed' = st.tuples_removed
       /\ st.tombstone_count >= TOMBSTONE_CLEANUP_THRESHOLD

\* C33: right after a compaction the tombstone set is empty and
\* tombstone_count is 0; every slot that was tombstoned when the cleanup
\* block ran is in no forward, reverse, L_eq or L_ge bitmap, its cached
\* string is released and it is still on the free list; the slots keep their
\* numbers: num_records and the TID table are unchanged and every other
\* slot keeps its cached string
C33_AfterCompaction ==
    [][\A dead \in SUBSET {tids[s] : s \in AllRecords} :
           (delete_count' > delete_count /\ CompactionStep(dead)) =>
               LET T == DeleteLoopStart(dead).tombstones
               IN /\ tombstones' = {}
                  /\ tombstone_count' = 0
                  /\ \A s \in T :
                         /\ InNoBitmap(s)'
                         /\ data_cache'[s] = NULL_STR
                         /\ s \in SeqToSet(free_list')
                  /\ num_records' = num_records
                  /\ tids' = tids
                  /\ \A s \in AllRecords \ T : data_cache'[s] = data_cache[s]
      ]_vars

\* two of three slots were tombstoned and compacted away: they are on the
\* free list with their strings released, and the third slot still holds a
\* string of two bytes
C33_Witness ==
    /\ num_records = MaxCompactRecords
    /\ delete_count = TOMBSTONE_CLEANUP_THRESHOLD
    /\ tombstones = {}
    /\ Len(free_list) = 2
    /\ \A s \in SeqToSet(free_list) : data_cache[s] = NULL_STR
    /\ \E s \in LiveSlots : Len(data_cache[s]) = MaxCompactLen

\* the step is biscuit_bulkdelete with a callback answering true on dead, and
\* its slot loop left tombstone_count below the cleanup threshold
LazyDeleteStep(dead) ==
    LET st == DeleteLoopStart(dead)
    IN /\ insert_count' = insert_count
       /\ free_list' = st.free_list
       /\ delete_count' = st.delete_count
       /\ tuples_removed' = st.tuples_removed
       /\ st.tombstone_count < TOMBSTONE_CLEANUP_THRESHOLD

\* C34: a bulk_delete whose slot loop ends below the cleanup threshold
\* leaves every forward, reverse and length bitmap, the TID table, the
\* cached strings, max_len, the length arrays' size and num_records
\* unchanged, and the tombstone set and the free list gain exactly the
\* slots it removed
C34_LazyDeleteFrame ==
    [][\A dead \in SUBSET {tids[s] : s \in AllRecords} :
           (delete_count' > delete_count /\ LazyDeleteStep(dead)) =>
               /\ UNCHANGED <<pos_idx, neg_idx, length_bitmaps,
                              length_ge_bitmaps, max_length, max_len,
                              tids, data_cache, num_records>>
               /\ tombstones' = DeleteLoopStart(dead).tombstones
               /\ tombstones' \ tombstones =
                      SeqToSet(free_list') \ SeqToSet(free_list)
      ]_vars

\* after a bulk_delete that removed one tuple and ran no cleanup: the slot is
\* tombstoned, its string is still cached and it is still in the forward
\* bitmap of its first byte
C34_Witness ==
    /\ tuples_removed = 1
    /\ Cardinality(tombstones) = 1
    /\ \E s \in tombstones :
           /\ Len(data_cache[s]) = MAX_POSITIONS
           /\ data_cache[s] # NULL_STR
           /\ s \in ForwardMembers[data_cache[s][1]][0]
           /\ s \in LeqMembers[MAX_POSITIONS]

(***************************************************************************)
(* biscuit_parse_pattern with the capacity of parsed->parts and            *)
(* parsed->part_lens                                                       *)
(***************************************************************************)
ParsePatterns == SeqsUpTo({"a", "_", "%"}, MaxParseLen)

\* the for loop: an append inside the loop doubles the arrays when full
RECURSIVE ParseLoopCap(_, _, _, _, _)
ParseLoopCap(pattern, i, part_start, parts, part_cap) ==
    IF i >= Len(pattern)
    THEN [parts |-> parts, part_start |-> part_start, part_cap |-> part_cap]
    ELSE IF pattern[i + 1] = "%"
    THEN LET part_len == i - part_start
         IN IF part_len > 0
            THEN ParseLoopCap(pattern, i + 1, i + 1,
                     Append(parts, SubSeq(pattern, part_start + 1, i)),
                     IF Len(parts) >= part_cap THEN part_cap * 2 ELSE part_cap)
            ELSE ParseLoopCap(pattern, i + 1, i + 1, parts, part_cap)
    ELSE ParseLoopCap(pattern, i + 1, part_start, parts, part_cap)

\* biscuit_parse_pattern: the append after the loop writes
\* parts[part_count] without looking at part_cap; outside tells that the
\* element written lies past the arrays
parse_pattern_cap(pattern) ==
    LET plen == Len(pattern)
        starts_percent == plen > 0 /\ pattern[1] = "%"
        ends_percent == plen > 0 /\ pattern[plen] = "%"
        r == ParseLoopCap(pattern, IF starts_percent THEN 1 ELSE 0,
                          IF starts_percent THEN 1 ELSE 0, <<>>, PART_CAP)
        part_len == IF ends_percent THEN plen - 1 - r.part_start
                    ELSE plen - r.part_start
        final == /\ r.part_start < plen
                 /\ (~ends_percent \/ r.part_start < plen - 1)
                 /\ part_len > 0
    IN [parts |-> IF final
                  THEN Append(r.parts, SubSeq(pattern, r.part_start + 1,
                                              r.part_start + part_len))
                  ELSE r.parts,
        part_cap |-> r.part_cap,
        starts_percent |-> starts_percent,
        ends_percent |-> ends_percent,
        outside |-> final /\ Len(r.parts) >= r.part_cap]

\* one call of biscuit_parse_pattern; a write past the arrays either goes
\* unnoticed, the element being read back as written, or damages the
\* allocator's bookkeeping and ends the backend
ParsePattern ==
    \E pattern \in ParsePatterns :
        LET p == parse_pattern_cap(pattern)
            done == [phase |-> "parsed", pattern |-> pattern,
                     parts |-> p.parts, part_cap |-> p.part_cap,
                     starts_percent |-> p.starts_percent,
                     ends_percent |-> p.ends_percent, error |-> ""]
        IN /\ \/ last_parse' = done
              \/ /\ p.outside
                 /\ last_parse' = [done EXCEPT !.phase = "failed",
                                       !.error = "server process terminated"]
           /\ UNCHANGED <<idxvars, tuples_removed, scanvars, obsvars, hostvars,
                          table_rows, ins_pending, fb, fb_set>>

NextParse == ParsePattern
SpecParse == Init /\ [][NextParse]_vars

\* the maximal non-empty runs of bytes other than % in pattern, in order
RECURSIVE MaximalRuns(_, _)
MaximalRuns(pattern, run) ==
    IF pattern = <<>> THEN (IF run = <<>> THEN <<>> ELSE <<run>>)
    ELSE IF Head(pattern) = "%"
    THEN (IF run = <<>> THEN <<>> ELSE <<run>>) \o MaximalRuns(Tail(pattern), <<>>)
    ELSE MaximalRuns(Tail(pattern), Append(run, Head(pattern)))

\* C35: every call of the parser returns, with starts_percent telling that
\* the first byte is %, ends_percent that the last byte is %, the segment
\* list equal to the maximal non-empty runs of bytes other than %, in
\* order, and every segment stored within the capacity of the arrays
C35_ParseSegments ==
    last_parse.phase # "idle" =>
        /\ last_parse.phase = "parsed"
        /\ last_parse.starts_percent =
               (last_parse.pattern # <<>> /\ Head(last_parse.pattern) = "%")
        /\ last_parse.ends_percent =
               (last_parse.pattern # <<>>
                   /\ last_parse.pattern[Len(last_parse.pattern)] = "%")
        /\ last_parse.parts = MaximalRuns(last_parse.pattern, <<>>)
        /\ Len(last_parse.parts) <= last_parse.part_cap

(***************************************************************************)
(* The cached index can be lost (rd_amcache = NULL in a new backend or     *)
(* after a relcache flush); the next handler rebuilds it from the table.   *)
(* The host has put a tuple in the table before it calls aminsert for it.  *)
(***************************************************************************)
\* the rows in the order the table scan returns them
RECURSIVE TableScan(_)
TableScan(rows) ==
    IF rows = {} THEN <<>>
    ELSE LET first == CHOOSE r \in rows :
                          \A o \in rows : biscuit_compare_tids(r.tid, o.tid) <= 0
         IN <<first>> \o TableScan(rows \ {first})

\* capacity after biscuit_load_index has stored n rows, doubling from the
\* initial value whenever num_records reaches it
RECURSIVE LoadedCapacity(_, _)
LoadedCapacity(n, cap) == IF n <= cap THEN cap ELSE LoadedCapacity(n, cap * 2)

\* biscuit_insert from the point where idx is set: its own tuple is added
\* whatever the index already holds
insert_after_reload(str, ht_ctid) == biscuit_insert_grow(str, ht_ctid)

\* the host adds a row under a TID no row has and calls aminsert; the index
\* is cached
MissInsert ==
    \E str \in ScanStrings, tid \in TIDs \ {r.tid : r \in table_rows} :
        /\ rel.rd_amcache
        /\ ~ins_pending.active
        /\ Cardinality(table_rows) < MaxMissRows
        /\ insert_count < MaxMissInserts
        /\ table_rows' = table_rows \cup {[str |-> str, tid |-> tid]}
        /\ biscuit_insert_grow(str, tid)
        /\ UNCHANGED <<tuples_removed, scanvars, obsvars, last_parse, ins_pending,
                       fb, fb_set>>

\* the cached index is dropped
CacheLoss ==
    /\ rel.rd_amcache
    /\ ~ins_pending.active
    /\ rel' = [rel EXCEPT !.rd_amcache = FALSE]
    /\ UNCHANGED <<idxvars, tuples_removed, scanvars, obsvars, capacity,
                   alloc_len, auxvars>>

\* aminsert without a cached index, up to index->rd_amcache = idx: the table
\* scan under SnapshotAny returns the new row with all the others
MissInsertLoad ==
    \E str \in ScanStrings, tid \in TIDs \ {r.tid : r \in table_rows} :
        /\ ~rel.rd_amcache
        /\ ~ins_pending.active
        /\ Cardinality(table_rows) < MaxMissRows
        /\ table_rows' = table_rows \cup {[str |-> str, tid |-> tid]}
        /\ biscuit_load_index(TableScan(table_rows'))
        /\ rel' = [rel EXCEPT !.rd_amcache = TRUE]
        /\ capacity' = LoadedCapacity(num_records', INITIAL_CAPACITY)
        /\ alloc_len' = capacity'
        /\ ins_pending' = [active |-> TRUE, str |-> str, tid |-> tid]
        /\ UNCHANGED <<tuples_removed, scanvars, obsvars, last_parse,
                       fb, fb_set>>

\* the rest of the same aminsert call
MissInsertFinish ==
    /\ ins_pending.active
    /\ insert_after_reload(ins_pending.str, ins_pending.tid)
    /\ ins_pending' = NoPending
    /\ UNCHANGED <<tuples_removed, scanvars, obsvars, last_parse, table_rows,
                   fb, fb_set>>

\* ambeginscan without a cached index
MissBeginScan ==
    /\ ~rel.rd_amcache
    /\ ~ins_pending.active
    /\ biscuit_load_index(TableScan(table_rows))
    /\ rel' = [rel EXCEPT !.rd_amcache = TRUE]
    /\ capacity' = LoadedCapacity(num_records', INITIAL_CAPACITY)
    /\ alloc_len' = capacity'
    /\ UNCHANGED <<tuples_removed, scanvars, obsvars, auxvars>>

\* VACUUM of the rows the host deleted, which then leave the table
MissBulkDelete ==
    \E dead \in SUBSET {r.tid : r \in table_rows} :
        /\ rel.rd_amcache
        /\ ~ins_pending.active
        /\ biscuit_bulkdelete(dead)
        /\ table_rows' = {r \in table_rows : r.tid \notin dead}
        /\ UNCHANGED <<scanvars, obsvars, hostvars, last_parse, ins_pending,
                       fb, fb_set>>

NextMiss ==
    MissInsert \/ CacheLoss \/ MissInsertLoad \/ MissInsertFinish
        \/ MissBeginScan \/ MissBulkDelete
SpecMiss == Init /\ [][NextMiss]_vars

\* C36: whenever a handler has returned and the index is cached, no TID is
\* held by two live slots and no scan returns a TID twice
C36_NoDuplicateTid ==
    (rel.rd_amcache /\ ~ins_pending.active) =>
        /\ \A s1, s2 \in LiveSlots : tids[s1] = tids[s2] => s1 = s2
        /\ \A p \in ScanPatterns :
               Len(RescanResults(p)) = Cardinality(SeqToSet(RescanResults(p)))

\* C37: after every operation max_len is at least the truncated length of
\* every live record and max_length = max_len + 1, L_eq has the indexes
\* 0..max_len and L_ge holds an allocated bitmap at each of them; max_len
\* never decreases; an insert that grows the arrays leaves every other
\* slot's L_eq and L_ge memberships as they were and puts its own slot in
\* L_eq at its length
C37_LengthArraysSized ==
    [][/\ \A s \in LiveSlots' : max_len' >= Len(Truncated(data_cache'[s]))
       /\ max_length' = max_len' + 1
       /\ DOMAIN length_bitmaps' = 0..max_len'
       /\ \A k \in 0..max_len' :
              k \in DOMAIN length_ge_bitmaps' /\ length_ge_bitmaps'[k] # NULL_BM
       /\ max_len' >= max_len
       /\ max_length' > max_length =>
              LET rec_idx == IF Len(free_list) > 0
                             THEN free_list[Len(free_list)] ELSE num_records
              IN /\ insert_count' = insert_count + 1
                 /\ rec_idx \in LeqMembers'[max_len']
                 /\ \A l \in 0..MaxInputLen :
                        /\ LeqMembers'[l] \ {rec_idx} = LeqMembers[l] \ {rec_idx}
                        /\ LgeMembers'[l] \ {rec_idx} = LgeMembers[l] \ {rec_idx}
      ]_vars

\* slot 0 got a string of one byte, then slot 1 a string of MAX_POSITIONS
\* bytes, which grew the arrays; slot 0 is still in L_eq[1]
C37_Witness ==
    /\ insert_count = 2
    /\ delete_count = 0
    /\ num_records = 2
    /\ Len(data_cache[0]) = 1
    /\ Len(data_cache[1]) = MAX_POSITIONS
    /\ max_len = MAX_POSITIONS
    /\ 0 \in LeqMembers[1]
    /\ 1 \in LeqMembers[MAX_POSITIONS]

(***************************************************************************)
(* Operations on two word-array bitmaps, each followed in a set of         *)
(* integers                                                                *)
(***************************************************************************)
FbAdd ==
    \E x \in BitmapIds, value \in BitValues :
        IF fb_add_fails(fb[x], value)
        THEN /\ rel' = [rel EXCEPT !.error = "invalid memory alloc request size"]
             /\ UNCHANGED <<idxvars, tuples_removed, scanvars, obsvars, capacity,
                            alloc_len, auxvars>>
        ELSE /\ fb' = [fb EXCEPT ![x] = fb_add(fb[x], value)]
             /\ fb_set' = [fb_set EXCEPT ![x] = fb_set[x] \cup {value}]
             /\ UNCHANGED <<idxvars, tuples_removed, scanvars, obsvars, hostvars,
                            last_parse, table_rows, ins_pending>>

FbRemove ==
    \E x \in BitmapIds, value \in BitValues :
        /\ fb' = [fb EXCEPT ![x] = fb_remove(fb[x], value)]
        /\ fb_set' = [fb_set EXCEPT ![x] = fb_set[x] \ {value}]
        /\ UNCHANGED <<idxvars, tuples_removed, scanvars, obsvars, hostvars,
                       last_parse, table_rows, ins_pending>>

\* fb[x] = biscuit_roaring_copy(fb[y]), the old fb[x] freed
FbCopy ==
    \E x, y \in BitmapIds :
        /\ x # y
        /\ fb' = [fb EXCEPT ![x] = fb_copy(fb[y])]
        /\ fb_set' = [fb_set EXCEPT ![x] = fb_set[y]]
        /\ UNCHANGED <<idxvars, tuples_removed, scanvars, obsvars, hostvars,
                       last_parse, table_rows, ins_pending>>

FbAndInplace ==
    \E x, y \in BitmapIds :
        /\ x # y
        /\ fb' = [fb EXCEPT ![x] = fb_and_inplace(fb[x], fb[y])]
        /\ fb_set' = [fb_set EXCEPT ![x] = fb_set[x] \cap fb_set[y]]
        /\ UNCHANGED <<idxvars, tuples_removed, scanvars, obsvars, hostvars,
                       last_parse, table_rows, ins_pending>>

FbOrInplace ==
    \E x, y \in BitmapIds :
        /\ x # y
        /\ fb' = [fb EXCEPT ![x] = fb_or_inplace(fb[x], fb[y])]
        /\ fb_set' = [fb_set EXCEPT ![x] = fb_set[x] \cup fb_set[y]]
        /\ UNCHANGED <<idxvars, tuples_removed, scanvars, obsvars, hostvars,
                       last_parse, table_rows, ins_pending>>

FbAndNotInplace ==
    \E x, y \in BitmapIds :
        /\ x # y
        /\ fb' = [fb EXCEPT ![x] = fb_andnot_inplace(fb[x], fb[y])]
        /\ fb_set' = [fb_set EXCEPT ![x] = fb_set[x] \ fb_set[y]]
        /\ UNCHANGED <<idxvars, tuples_removed, scanvars, obsvars, hostvars,
                       last_parse, table_rows, ins_pending>>

NextBitmap ==
    FbAdd \/ FbRemove \/ FbCopy \/ FbAndInplace \/ FbOrInplace \/ FbAndNotInplace
SpecBitmap == Init /\ [][NextBitmap]_vars

\* the members of a set of integers in ascending order
RECURSIVE Ascending(_)
Ascending(S) ==
    IF S = {} THEN <<>>
    ELSE LET least == CHOOSE x \in S : \A y \in S : x <= y
         IN <<least>> \o Ascending(S \ {least})

\* C38: every add, remove, copy, and_inplace, or_inplace and andnot_inplace
\* on the two word-array bitmaps completes, and after any sequence of them
\* to_array lists exactly the members of the set the same operations
\* produce, in ascending order, count is the size of that set and is_empty
\* tells whether it is empty
C38_WordArrayIsSet ==
    /\ rel.error = ""
    /\ \A x \in BitmapIds :
           /\ fb_to_array(fb[x]) = Ascending(fb_set[x])
           /\ fb_count(fb[x]) = Cardinality(fb_set[x])
           /\ fb_is_empty(fb[x]) <=> fb_set[x] = {}
           /\ fb[x].num_blocks <= fb[x].capacity
           /\ DOMAIN fb[x].blocks = 0..(fb[x].capacity - 1)

=============================================================================
